---- MODULE Spec2Model ----
(***************************************************************************)
(* A model of the unitlab SDK:                                             *)
(*   - UnitlabClient.project_upload_data   (src/src/unitlab/client.py)     *)
(*   - UnitlabClient.dataset_download_files (src/src/unitlab/client.py)    *)
(*   - COCO / DatasetUploadHandler          (src/src/unitlab/dataset.py)   *)
(* Each subsystem has its own specification (Spec for the upload,          *)
(* SpecDownload, SpecCoco for the index and the payloads, SpecUploadImage  *)
(* for upload_image); the variables of the other subsystems stay at their  *)
(* initial values.                                                         *)
(***************************************************************************)
EXTENDS Integers, Sequences, FiniteSets, TLC

VARIABLES
    \* ---- project_upload_data ----
    dir_exists,      \* os.path.isdir(directory)
    tree,            \* the entries below the directory (indices of Candidates)
    batch_size,      \* the batch_size argument
    filtered_files,  \* the list filtered_files (indices of Candidates)
    pc,              \* where project_upload_data / main() stands
    batch,           \* the loop variable i of main()
    tstate,          \* per file: the state of its post_file coroutine
    doneq,           \* as_completed's queue: finished tasks not yet awaited
    consumed,        \* how many tasks of the current batch main() has awaited
    pbar,            \* the progress bar's count
    posts,           \* per file: how many POSTs were started for it
    \* ---- dataset_download_files ----
    dl_response,     \* the dataset files the API lists (their ids, in order)
    dl_disk,         \* per dataset file: what the target folder holds under its name
    dl_files,        \* the list dataset_files
    dl_pc,           \* where dataset_download_files / main() stands
    dl_task,         \* per dataset file: the state of its download_file coroutine
    dl_doneq,        \* as_completed's queue: finished tasks not yet awaited
    dl_pbar,         \* the progress bar's count
    dl_gets,         \* per dataset file: how many GETs this run sent for it
    dl_run,          \* the number of the run of dataset_download_files: 1, 2, ...
    dl_disk0,        \* dl_disk when this run started
    dl_prev,         \* dl_task at the end of the run before this one
    \* ---- COCO / DatasetUploadHandler ----
    data_is_dir,     \* os.path.isdir(data_path)
    dataset,         \* the loaded annotation file
    annotation_type, \* the annotation_type argument
    coco_pc,         \* "file": not loaded; "indexed"; "KeyError" / "ValueError"
    anns,            \* dict: annotation id -> annotation
    imgToAnns,       \* dict: image id -> list of annotations
    catToImgs,       \* dict: category id -> list of image ids
    imgs,            \* dict: image id -> image
    cats,            \* dict: category id -> category
    categories,      \* the sorted, renumbered copies of the categories
    classes,         \* the category names in the order of categories
    original_category_referecences,   \* dict: original category id -> index
    last,            \* the last call on the handler and what it gave
    \* ---- utils.send_request ----
    base_url,        \* os.environ's UNITLAB_BASE_URL: <<>> when unset, else <<value>>
    sr_pc,           \* where send_request stands: "idle" between calls
    sr_sent,         \* the requests of the current (or last) call and their answers
    sr_result,       \* what the last call gave: <<>> while none has finished
    sr_url0,         \* UNITLAB_BASE_URL when the current (or last) call started
    sr_fallback,     \* the host of the most recent fallback success, <<>> if none
    sr_fb0,          \* sr_fallback when the current (or last) call started
    sr_calls,        \* how many calls were started
    \* ---- CloudflareTunnel.setup ----
    tn_cert,         \* ~/.cloudflared/cert.pem exists
    tn_cert0,        \* it existed when setup was called
    tn_pc,           \* the step setup executes next; "done" when it has ended
    tn_steps,        \* the steps executed so far and how each ended
    tn_routes,       \* how the two DNS route commands ended
    tn_proc,         \* the cloudflared process: "none", "running" or "exited"
    tn_result,       \* what setup gave: <<>> while it runs
    \* ---- the device agent: metrics thread and cleanup ----
    running,         \* self.running
    jupyter_proc,    \* self.jupyter_proc: "proc" (a Popen handle) or "None"
    tunnel_proc,     \* self.tunnel_proc: "proc" or "None"
    alive,           \* per child process: whether it is still running
    main_pc,         \* where the main thread stands in run_device_agent
    metrics_pc,      \* where the metrics thread stands in metrics_loop
    sleeps,          \* the metrics thread's position in `for _ in range(3)`
    none_calls,      \* the method calls made on None: <<thread, method, child>>
    jupyter_port,    \* self.jupyter_port: <<>> for None, else <<port>>
    started,         \* the child processes this run has started
    signalled,       \* the children terminate() or kill() was called on
    services,        \* the services run_device_agent started and how each ended
    metrics_sent,    \* whether send_metrics was called
    report,          \* the calls of report_services and what each did
    \* ---- PersistentTunnel.start ----
    pt_pc,           \* the step start executes next; "done" when it has returned
    pt_tunnel_id,    \* self.tunnel_id: <<>> for None, else <<id>>
    pt_dns,          \* the DNS records that point to the tunnel
    pt_steps,        \* the steps executed so far and what each returned
    pt_proc,         \* per child process: "none", "running" or "exited"
    pt_signalled,    \* the children terminate() or kill() was called on
    pt_announced,    \* whether the success banner was printed
    pt_result        \* what start returned: <<>> while it runs

upvars == <<dir_exists, tree, batch_size, filtered_files, pc, batch, tstate,
            doneq, consumed, pbar, posts>>

dlvars == <<dl_response, dl_disk, dl_files, dl_pc, dl_task, dl_doneq, dl_pbar,
            dl_gets, dl_run, dl_disk0, dl_prev>>

cocovars == <<data_is_dir, dataset, annotation_type, coco_pc, anns, imgToAnns,
              catToImgs, imgs, cats, categories, classes,
              original_category_referecences, last>>

reqvars == <<base_url, sr_pc, sr_sent, sr_result, sr_url0, sr_fallback, sr_fb0,
             sr_calls>>

tunvars == <<tn_cert, tn_cert0, tn_pc, tn_steps, tn_routes, tn_proc, tn_result>>

\* what only the start of run_device_agent writes
startvars == <<jupyter_port, started, services, report>>

agentvars == <<running, jupyter_proc, tunnel_proc, alive, main_pc, metrics_pc,
               sleeps, none_calls, startvars, signalled, metrics_sent>>

ptvars == <<pt_pc, pt_tunnel_id, pt_dns, pt_steps, pt_proc, pt_signalled,
            pt_announced, pt_result>>

vars == <<upvars, dlvars, cocovars, reqvars, tunvars, agentvars, ptvars>>

----------------------------------------------------------------------------
(* Bounds of the model *)
MaxEntries == 4     \* at most this many entries below the directory
MaxBatch == 3       \* batch_size ranges over 1..MaxBatch
MaxDownloads == 4   \* the API lists at most this many dataset files
MaxAnns == 2        \* the annotation file holds at most this many annotations
MaxCalls == 3       \* send_request is called at most this many times
MaxRedownloads == 2 \* a repeated download lists at most this many dataset files
MaxRuns == 2        \* dataset_download_files is run at most this many times

----------------------------------------------------------------------------
(* Sequence helpers *)

\* the elements of a sequence
Range(s) == {s[k] : k \in 1..Len(s)}

\* Python's s[a:b] for 0 <= a, on a 1-based sequence
Slice(s, a, b) ==
    LET hi == IF b < Len(s) THEN b ELSE Len(s)
    IN  IF a >= hi THEN <<>> ELSE SubSeq(s, a + 1, hi)

\* str.endswith
EndsWith(name, suf) ==
    /\ Len(name) >= Len(suf)
    /\ SubSeq(name, Len(name) - Len(suf) + 1, Len(name)) = suf

\* the ascending enumeration of a finite set of integers
RECURSIVE SortedSeq(_)
SortedSeq(S) ==
    IF S = {} THEN <<>>
    ELSE LET m == CHOOSE x \in S : \A y \in S : x <= y
         IN  <<m>> \o SortedSeq(S \ {m})

RECURSIVE Concat(_)
Concat(ss) == IF ss = <<>> THEN <<>> ELSE Head(ss) \o Concat(Tail(ss))

----------------------------------------------------------------------------
(* The file system below the upload directory.  A name is the tuple of its  *)
(* characters.  kind: "file", "dir" (a sub-directory) or "broken" (a        *)
(* dangling symbolic link); depth 1 = directly in the directory, 2 = inside *)
(* a sub-directory.                                                         *)

MaxUploadMB == 6
BytesPerMB == 1048576

Entry(n, d, sz, k) == [name |-> n, depth |-> d, size |-> sz, kind |-> k]

Candidates == <<
    Entry(<<"a", ".", "j", "p", "g">>,           1, 10,                          "file"),
    Entry(<<"b", ".", "p", "n", "g">>,           1, MaxUploadMB * BytesPerMB,     "file"),
    Entry(<<"c", ".", "j", "p", "e", "g">>,      1, MaxUploadMB * BytesPerMB + 1, "file"),
    Entry(<<"d", ".", "w", "e", "b", "p">>,      1, 0,                           "file"),
    Entry(<<".", "h", ".", "j", "p", "g">>,      1, 10,                          "file"),
    Entry(<<"e", ".", "t", "x", "t">>,           1, 10,                          "file"),
    Entry(<<"g", "j", "p", "g">>,                1, 10,                          "file"),
    Entry(<<"k", ".", "p", "n", "g">>,           2, 10,                          "file"),
    Entry(<<"q", ".", "j", "p", "g">>,           1, 4096,                        "dir"),
    Entry(<<"l", ".", "p", "n", "g">>,           1, 0,                           "broken")
>>

Files == 1..Len(Candidates)

\* the extension patterns of the glob, in the order the code tries them
Extensions == << <<"j", "p", "g">>, <<"p", "n", "g">>,
                 <<"j", "p", "e", "g">>, <<"w", "e", "b", "p">> >>

\* glob._ishidden
IsHidden(name) == Len(name) > 0 /\ name[1] = "."

\* glob.glob(os.path.join(directory, "") + "*" + ext): the names os.scandir
\* lists directly in the directory, hidden names dropped because the pattern
\* does not start with a dot, filtered by fnmatch ("*ext" = ends with ext).
\* The listing order is the order of Candidates.
GlobOne(t, ext) ==
    SortedSeq({f \in t : /\ Candidates[f].depth = 1
                         /\ ~IsHidden(Candidates[f].name)
                         /\ EndsWith(Candidates[f].name, ext)})

\* files = [file for files_list in (glob(...) for extension in [...]) for file in files_list]
Glob(t) == Concat([e \in 1..Len(Extensions) |-> GlobOne(t, Extensions[e])])

\* os.path.getsize raises OSError for a dangling link
GetsizeRaises(fs) == \E k \in 1..Len(fs) : Candidates[fs[k]].kind = "broken"

\* a variant: the size filter with the limit itself excluded
TooLarge_Inclusive(f) == Candidates[f].size >= MaxUploadMB * BytesPerMB

\* file_size = os.path.getsize(file) / 1024 / 1024; skipped if file_size > 6.
\* The division by 2^20 is exact in double precision, so the comparison is
\* size > 6 * 2^20 on the integers.
TooLarge(f) == Candidates[f].size > MaxUploadMB * BytesPerMB

RECURSIVE SizeFilter(_)
SizeFilter(fs) ==
    IF fs = <<>> THEN <<>>
    ELSE IF TooLarge(Head(fs)) THEN SizeFilter(Tail(fs))
         ELSE <<Head(fs)>> \o SizeFilter(Tail(fs))

\* num_files = len(filtered_files)
num_files == Len(filtered_files)

\* a variant: the batch count rounded down
NumBatches_Floor(n, b) == n \div b

\* num_batches = (num_files + batch_size - 1) // batch_size
NumBatches(n, b) == (n + b - 1) \div b
num_batches == NumBatches(num_files, batch_size)

\* filtered_files[i * batch_size : min((i + 1) * batch_size, num_files)]
Min(a, b) == IF a < b THEN a ELSE b
BatchSlice(fs, b, i) == Slice(fs, i * b, Min((i + 1) * b, Len(fs)))

----------------------------------------------------------------------------
(* project_upload_data *)

\* the upload leaves the other subsystems alone
UpFrame == UNCHANGED <<dlvars, cocovars, reqvars, tunvars, agentvars, ptvars>>

TaskStates == {"none", "open", "sleep", "post", "ok", "fail", "raised", "cancelled"}
Pending == {"open", "sleep", "post"}

InitUpload ==
    /\ dir_exists \in BOOLEAN
    /\ tree \in {t \in SUBSET Files : Cardinality(t) <= MaxEntries}
    /\ (~dir_exists => tree = {})
    /\ batch_size \in 1..MaxBatch
    /\ filtered_files = <<>>
    /\ pc = "start"
    /\ batch = 0
    /\ tstate = [f \in Files |-> "none"]
    /\ doneq = <<>>
    /\ consumed = 0
    /\ pbar = 0
    /\ posts = [f \in Files |-> 0]

\* lines 144-166: the directory check, the glob and the size filter
Discover ==
    /\ pc = "start"
    /\ IF ~dir_exists
       THEN /\ pc' = "ValueError"
            /\ UNCHANGED filtered_files
       ELSE IF GetsizeRaises(Glob(tree))
       THEN /\ pc' = "OSError"
            /\ UNCHANGED filtered_files
       ELSE /\ filtered_files' = SizeFilter(Glob(tree))
            /\ pc' = "loop"
    /\ UNCHANGED <<dir_exists, tree, batch_size, batch, tstate, doneq,
                   consumed, pbar, posts>>
    /\ UpFrame

\* lines 193-203: the tasks of batch i are created and as_completed schedules
\* them all; after the last batch main() returns
StartBatch ==
    /\ pc = "loop"
    /\ IF batch < num_batches
       THEN /\ tstate' = [f \in Files |->
                    IF f \in Range(BatchSlice(filtered_files, batch_size, batch))
                    THEN "open" ELSE tstate[f]]
            /\ pc' = "await"
       ELSE /\ pc' = "done"
            /\ UNCHANGED tstate
    /\ consumed' = 0
    /\ doneq' = <<>>
    /\ UNCHANGED <<dir_exists, tree, batch_size, filtered_files, batch, pbar, posts>>
    /\ UpFrame

\* lines 169-174: aiofiles.open and f.read(), outside the try block: an
\* OSError ends the coroutine with that exception
TaskRead(f) ==
    /\ tstate[f] = "open"
    /\ \/ /\ Candidates[f].kind = "file"
          /\ tstate' = [tstate EXCEPT ![f] = "sleep"]
          /\ UNCHANGED doneq
       \/ /\ tstate' = [tstate EXCEPT ![f] = "raised"]
          /\ doneq' = Append(doneq, f)
    /\ UNCHANGED <<dir_exists, tree, batch_size, filtered_files, pc, batch,
                   consumed, pbar, posts>>
    /\ UpFrame

\* lines 176-177: after the sleep the POST is sent
TaskPost(f) ==
    /\ tstate[f] = "sleep"
    /\ tstate' = [tstate EXCEPT ![f] = "post"]
    /\ posts' = [posts EXCEPT ![f] = @ + 1]
    /\ UNCHANGED <<dir_exists, tree, batch_size, filtered_files, pc, batch,
                   doneq, consumed, pbar>>
    /\ UpFrame

\* lines 177-185: the POST ends; a connection error or an error status is
\* caught and logged (return 0), a good status returns 1
PostResult(ok) == IF ok THEN "ok" ELSE "fail"

TaskFinish(f) ==
    /\ tstate[f] = "post"
    /\ \E ok \in BOOLEAN : tstate' = [tstate EXCEPT ![f] = PostResult(ok)]
    /\ doneq' = Append(doneq, f)
    /\ UNCHANGED <<dir_exists, tree, batch_size, filtered_files, pc, batch,
                   consumed, pbar, posts>>
    /\ UpFrame

\* the value post_file returned
Returned(st) == IF st = "ok" THEN 1 ELSE 0

\* a variant: main() leaving the inner loop after the first awaited task
BatchAwaited_First(n, fs, b, i) == n >= 1

\* main() leaves the inner loop once it has awaited every task of the batch
BatchAwaited(n, fs, b, i) == n = Len(BatchSlice(fs, b, i))

\* lines 203-204: pbar.update(await f) for the next finished task; the await
\* re-raises the exception of a task that raised
AwaitNext ==
    /\ pc = "await"
    /\ doneq # <<>>
    /\ LET f == Head(doneq) IN
       IF tstate[f] = "raised"
       THEN /\ pc' = "raised"
            /\ UNCHANGED <<pbar, consumed, batch>>
       ELSE /\ pbar' = pbar + Returned(tstate[f])
            /\ consumed' = consumed + 1
            /\ IF BatchAwaited(consumed + 1, filtered_files, batch_size, batch)
               THEN pc' = "loop" /\ batch' = batch + 1
               ELSE pc' = "await" /\ UNCHANGED batch
    /\ doneq' = Tail(doneq)
    /\ UNCHANGED <<dir_exists, tree, batch_size, filtered_files, tstate, posts>>
    /\ UpFrame

\* line 206: asyncio.run cancels the tasks still pending when main() raised
CancelAll ==
    /\ pc = "raised"
    /\ tstate' = [f \in Files |-> IF tstate[f] \in Pending THEN "cancelled" ELSE tstate[f]]
    /\ pc' = "aborted"
    /\ UNCHANGED <<dir_exists, tree, batch_size, filtered_files, batch, doneq,
                   consumed, pbar, posts>>
    /\ UpFrame

----------------------------------------------------------------------------
(* dataset_download_files *)

DlFiles == 1..MaxDownloads
DlPending == {"sched", "get", "write"}

\* the download leaves the other subsystems alone
DlFrame == UNCHANGED <<upvars, cocovars, reqvars, tunvars, agentvars, ptvars>>

\* the upload's variables when no upload runs
UpIdle ==
    /\ dir_exists = FALSE
    /\ tree = {}
    /\ batch_size = 1
    /\ filtered_files = <<>>
    /\ pc = "idle"
    /\ batch = 0
    /\ tstate = [f \in Files |-> "none"]
    /\ doneq = <<>>
    /\ consumed = 0
    /\ pbar = 0
    /\ posts = [f \in Files |-> 0]

\* the download's variables when no download runs
DlIdle ==
    /\ dl_response = <<>>
    /\ dl_disk = [f \in DlFiles |-> "absent"]
    /\ dl_files = <<>>
    /\ dl_pc = "idle"
    /\ dl_task = [f \in DlFiles |-> "none"]
    /\ dl_doneq = <<>>
    /\ dl_pbar = 0
    /\ dl_gets = [f \in DlFiles |-> 0]
    /\ dl_run = 0
    /\ dl_disk0 = [f \in DlFiles |-> "absent"]
    /\ dl_prev = [f \in DlFiles |-> "none"]

\* the API lists the dataset files 1..n; the folder may already hold some of
\* them, complete, from an earlier run
InitDownload ==
    /\ \E n \in 0..MaxDownloads : dl_response = [k \in 1..n |-> k]
    /\ dl_disk \in [DlFiles -> {"absent", "complete"}]
    /\ \A f \in DlFiles : f > Len(dl_response) => dl_disk[f] = "absent"
    /\ dl_files = <<>>
    /\ dl_pc = "start"
    /\ dl_task = [f \in DlFiles |-> "none"]
    /\ dl_doneq = <<>>
    /\ dl_pbar = 0
    /\ dl_gets = [f \in DlFiles |-> 0]
    /\ dl_run = 1
    /\ dl_disk0 = dl_disk
    /\ dl_prev = [f \in DlFiles |-> "none"]

\* os.path.isfile(os.path.join(folder, file_name))
IsFile(d, f) == d[f] # "absent"

\* a variant: every listed file downloaded, whatever the folder holds
NotOnDisk_All(resp, d) == resp

\* lines 232-236: the listed files that are not yet in the folder
RECURSIVE NotOnDisk(_, _)
NotOnDisk(resp, d) ==
    IF resp = <<>> THEN <<>>
    ELSE IF IsFile(d, Head(resp)) THEN NotOnDisk(Tail(resp), d)
         ELSE <<Head(resp)>> \o NotOnDisk(Tail(resp), d)

\* lines 257-261: the tasks as_completed schedules: one per file of dataset_files
DlScheduled(fs) == Range(fs)

\* lines 227-236 and 254-261: dataset_files is computed, one download_file
\* coroutine per file is created and as_completed schedules them all
DlStart ==
    /\ dl_pc = "start"
    /\ dl_files' = NotOnDisk(dl_response, dl_disk)
    /\ dl_task' = [f \in DlFiles |->
            IF f \in DlScheduled(NotOnDisk(dl_response, dl_disk)) THEN "sched" ELSE dl_task[f]]
    /\ dl_pc' = IF NotOnDisk(dl_response, dl_disk) = <<>> THEN "done" ELSE "await"
    /\ UNCHANGED <<dl_response, dl_disk, dl_doneq, dl_pbar, dl_gets, dl_run, dl_disk0, dl_prev>>
    /\ DlFrame

\* line 239: session.get sends the request
DlSend(f) ==
    /\ dl_task[f] = "sched"
    /\ dl_task' = [dl_task EXCEPT ![f] = "get"]
    /\ dl_gets' = [dl_gets EXCEPT ![f] = @ + 1]
    /\ UNCHANGED <<dl_response, dl_disk, dl_files, dl_pc, dl_doneq, dl_pbar, dl_run, dl_disk0, dl_prev>>
    /\ DlFrame

\* lines 239-249: the response arrives.  An error status is logged (return 0);
\* a good status opens the target file for writing, which creates it empty;
\* a connection error raises out of session.get, outside the try block
DlResponse(f) ==
    /\ dl_task[f] = "get"
    /\ \/ /\ dl_task' = [dl_task EXCEPT ![f] = "fail"]
          /\ dl_doneq' = Append(dl_doneq, f)
          /\ UNCHANGED dl_disk
       \/ /\ dl_task' = [dl_task EXCEPT ![f] = "write"]
          /\ dl_disk' = [dl_disk EXCEPT ![f] = "partial"]
          /\ UNCHANGED dl_doneq
       \/ /\ dl_task' = [dl_task EXCEPT ![f] = "raised"]
          /\ dl_doneq' = Append(dl_doneq, f)
          /\ UNCHANGED dl_disk
    /\ UNCHANGED <<dl_response, dl_files, dl_pc, dl_pbar, dl_gets, dl_run, dl_disk0, dl_prev>>
    /\ DlFrame

\* lines 250-252: the body is streamed into the file; the last chunk completes
\* it (return 1), an error in the stream raises and leaves what was written
DlWrite(f) ==
    /\ dl_task[f] = "write"
    /\ \/ /\ dl_task' = [dl_task EXCEPT ![f] = "ok"]
          /\ dl_disk' = [dl_disk EXCEPT ![f] = "complete"]
       \/ /\ dl_task' = [dl_task EXCEPT ![f] = "raised"]
          /\ UNCHANGED dl_disk
    /\ dl_doneq' = Append(dl_doneq, f)
    /\ UNCHANGED <<dl_response, dl_files, dl_pc, dl_pbar, dl_gets, dl_run, dl_disk0, dl_prev>>
    /\ DlFrame

\* lines 261-262: pbar.update(await f) for the next finished task; the await
\* re-raises the exception of a task that raised; after the last task main()
\* returns
DlAwaitNext ==
    /\ dl_pc = "await"
    /\ dl_doneq # <<>>
    /\ LET f == Head(dl_doneq) IN
       IF dl_task[f] = "raised"
       THEN /\ dl_pc' = "raised"
            /\ UNCHANGED dl_pbar
       ELSE /\ dl_pbar' = dl_pbar + Returned(dl_task[f])
            /\ dl_pc' = IF /\ Len(dl_doneq) = 1
                           /\ \A g \in DlFiles : dl_task[g] \notin DlPending
                        THEN "done" ELSE "await"
    /\ dl_doneq' = Tail(dl_doneq)
    /\ UNCHANGED <<dl_response, dl_disk, dl_files, dl_task, dl_gets, dl_run, dl_disk0, dl_prev>>
    /\ DlFrame

\* line 264: asyncio.run cancels the tasks still pending when main() raised
DlCancelAll ==
    /\ dl_pc = "raised"
    /\ dl_task' = [f \in DlFiles |->
            IF dl_task[f] \in DlPending THEN "cancelled" ELSE dl_task[f]]
    /\ dl_pc' = "aborted"
    /\ UNCHANGED <<dl_response, dl_disk, dl_files, dl_doneq, dl_pbar, dl_gets, dl_run, dl_disk0, dl_prev>>
    /\ DlFrame

NextDownload ==
    \/ DlStart
    \/ \E f \in DlFiles : DlSend(f)
    \/ \E f \in DlFiles : DlResponse(f)
    \/ \E f \in DlFiles : DlWrite(f)
    \/ DlAwaitNext
    \/ DlCancelAll

\* dataset_download_files has ended: it returned, or asyncio.run re-raised
DlFinished == dl_pc \in {"done", "aborted"}

\* the runs that are repeated list at most MaxRedownloads files
InitRedownload ==
    /\ InitDownload
    /\ Len(dl_response) <= MaxRedownloads

\* dataset_download_files is called again for the same dataset (lines
\* 226-236): the API lists the same files, the folder is as the run before
\* left it, everything else starts afresh
DlRerun ==
    /\ DlFinished
    /\ dl_run < MaxRuns
    /\ dl_run' = dl_run + 1
    /\ dl_prev' = dl_task
    /\ dl_disk0' = dl_disk
    /\ dl_pc' = "start"
    /\ dl_files' = <<>>
    /\ dl_task' = [f \in DlFiles |-> "none"]
    /\ dl_doneq' = <<>>
    /\ dl_pbar' = 0
    /\ dl_gets' = [f \in DlFiles |-> 0]
    /\ UNCHANGED <<dl_response, dl_disk>>
    /\ DlFrame

NextRedownload ==
    \/ NextDownload
    \/ DlRerun

----------------------------------------------------------------------------
(* COCO: the annotation file *)

\* a Python dict as a function on its keys
EmptyDict == <<>>
Put(d, k, v) == [x \in (DOMAIN d) \cup {k} |-> IF x = k THEN v ELSE d[x]]

\* the enumeration of a finite set in some order (list(set) in Python)
RECURSIVE SetToSeq(_)
SetToSeq(S) ==
    IF S = {} THEN <<>>
    ELSE LET x == CHOOSE y \in S : TRUE IN <<x>> \o SetToSeq(S \ {x})

\* the sequences over a set, up to a length
RECURSIVE SeqsUpTo(_, _)
SeqsUpTo(S, n) == IF n = 0 THEN {<<>>} ELSE SeqsUpTo(S, n - 1) \cup [1..n -> S]

\* those without repetition
DistinctSeqs(S, n) ==
    {q \in SeqsUpTo(S, n) : \A j, k \in 1..Len(q) : j # k => q[j] # q[k]}

CatPool == {[id |-> 1, name |-> "a", supercategory |-> "s"],
            [id |-> 3, name |-> "b", supercategory |-> "s"],
            [id |-> 3, name |-> "c", supercategory |-> "t"]}

ImgPool == {[id |-> 1, file_name |-> "1.jpg", on_disk |-> TRUE],
            [id |-> 2, file_name |-> "2.jpg", on_disk |-> TRUE],
            [id |-> 2, file_name |-> "3.jpg", on_disk |-> FALSE]}

AnnIds == {1, 2}
ImgIds == {1, 2}
CatIds == {1, 3}
AnnPool == [id : AnnIds, image_id : ImgIds, category_id : CatIds]

\* the annotation at position p of the file: its geometry is its own
Annotation(a, p) ==
    [id |-> a.id, image_id |-> a.image_id, category_id |-> a.category_id,
     bbox |-> <<p, 0, 1, 1>>, segmentation |-> <<p>>, area |-> 50, iscrowd |-> 0]

AnnotationLists ==
    {[p \in 1..Len(q) |-> Annotation(q[p], p)] : q \in SeqsUpTo(AnnPool, MaxAnns)}

AllKeys == {"images", "annotations", "categories"}

\* an annotation file: the keys it has and the three lists
Dataset(ks, is, as, cs) == [keys |-> ks, images |-> is, annotations |-> as, categories |-> cs]

\* the handler's attributes before the file is loaded (__init__, lines 25-29)
CocoUnloaded ==
    /\ annotation_type = "none"
    /\ coco_pc = "file"
    /\ anns = EmptyDict
    /\ imgToAnns = EmptyDict
    /\ catToImgs = EmptyDict
    /\ imgs = EmptyDict
    /\ cats = EmptyDict
    /\ categories = <<>>
    /\ classes = <<>>
    /\ original_category_referecences = EmptyDict
    /\ last = [op |-> "none"]

\* the COCO variables when no handler is in use
CocoIdle ==
    /\ data_is_dir = FALSE
    /\ dataset = Dataset({}, <<>>, <<>>, <<>>)
    /\ CocoUnloaded

InitCoco ==
    /\ data_is_dir \in BOOLEAN
    /\ \/ /\ data_is_dir
          /\ \E is \in DistinctSeqs(ImgPool, 2), as \in AnnotationLists,
                cs \in DistinctSeqs(CatPool, 3) :
                dataset = Dataset(AllKeys, is, as, cs)
       \/ \E k \in AllKeys, as \in AnnotationLists :
              /\ Len(as) = 1
              /\ dataset = Dataset(IF data_is_dir THEN AllKeys \ {k} ELSE AllKeys,
                                   IF k = "images" THEN <<>>
                                   ELSE <<[id |-> 1, file_name |-> "1.jpg", on_disk |-> TRUE]>>,
                                   IF k = "annotations" THEN <<>> ELSE as,
                                   IF k = "categories" THEN <<>>
                                   ELSE <<[id |-> 1, name |-> "a", supercategory |-> "s"]>>)
    /\ CocoUnloaded

\* _validate (lines 36-53): "ok", or the exception it raises
Validate(isdir, ds) ==
    IF ~isdir THEN "ValueError"
    ELSE IF "images" \notin ds.keys THEN "KeyError"
    ELSE IF Len(ds.images) = 0 THEN "ValueError"
    ELSE IF "annotations" \notin ds.keys THEN "KeyError"
    ELSE IF Len(ds.annotations) = 0 THEN "ValueError"
    ELSE IF "categories" \notin ds.keys THEN "KeyError"
    ELSE IF Len(ds.categories) = 0 THEN "ValueError"
    ELSE "ok"

----------------------------------------------------------------------------
(* COCO.createIndex and the lookups *)

\* for e in entities: d[e["id"]] = e   (lines 64-72)
RECURSIVE IndexById(_, _)
IndexById(es, d) ==
    IF es = <<>> THEN d ELSE IndexById(Tail(es), Put(d, Head(es).id, Head(es)))

\* a variant: the defaultdict list built by inserting at the front
AppendTo_Prepend(d, k, v) == Put(d, k, <<v>> \o (IF k \in DOMAIN d THEN d[k] ELSE <<>>))

\* defaultdict(list): d[k].append(v)
AppendTo(d, k, v) == Put(d, k, Append(IF k \in DOMAIN d THEN d[k] ELSE <<>>, v))

\* for ann in annotations: imgToAnns[ann["image_id"]].append(ann)   (lines 64-65)
RECURSIVE GroupByImage(_, _)
GroupByImage(as, d) ==
    IF as = <<>> THEN d
    ELSE GroupByImage(Tail(as), AppendTo(d, Head(as).image_id, Head(as)))

\* for ann in annotations: catToImgs[ann["category_id"]].append(ann["image_id"])
\* (lines 74-75)
RECURSIVE GroupImagesByCat(_, _)
GroupImagesByCat(as, d) ==
    IF as = <<>> THEN d
    ELSE GroupImagesByCat(Tail(as), AppendTo(d, Head(as).category_id, Head(as).image_id))

\* x in list
InList(x, l) == \E k \in 1..Len(l) : l[k] = x

\* getCatIds (lines 134-166)
getCatIds(ds, catNms, supNms, catIds) ==
    LET byName(c) == Len(catNms) = 0 \/ InList(c.name, catNms)
        bySup(c) == Len(supNms) = 0 \/ InList(c.supercategory, supNms)
        byId(c) == Len(catIds) = 0 \/ InList(c.id, catIds)
        found == SelectSeq(SelectSeq(SelectSeq(ds.categories, byName), bySup), byId)
    IN  [k \in 1..Len(found) |-> found[k].id]

\* loadCats / loadAnns / loadImgs with a list (lines 189-220): [d[id] for id in ids]
Load(d, ids) == [k \in 1..Len(ids) |-> d[ids[k]]]

\* sorted(l, key=...): a stable sort, by insertion after the elements that
\* are not larger
RECURSIVE InsertByKey(_, _, _)
InsertByKey(x, l, key) ==
    IF l = <<>> THEN <<x>>
    ELSE IF key[Head(l)] <= key[x] THEN <<Head(l)>> \o InsertByKey(x, Tail(l), key)
         ELSE <<x>> \o l

\* a variant: the categories left in file order
SortedByKey_Unsorted(l, key) == l

\* sorted(..., key=lambda x: x["id"]) (lines 83-85)
RECURSIVE SortedByKey(_, _)
SortedByKey(l, key) ==
    IF l = <<>> THEN <<>>
    ELSE InsertByKey(l[Len(l)], SortedByKey(SubSeq(l, 1, Len(l) - 1), key), key)

\* copy.deepcopy(self.loadCats(self.getCatIds())) (line 84): loadCats gives,
\* for every category entry, the object cats holds under that entry's id, so
\* the list refers to one object per distinct id and the deep copy keeps that
\* sharing.  An object of the copy is named by the id it was stored under:
\* CopiedObjects is the store of the copies, the list holds their names.
CopiedObjects(cs) == cs

\* lines 88-90: for i, category in enumerate(categories):
\*     references[category["id"]] = i; category["id"] = i
\* st = [ref |-> the references so far, objs |-> the objects so far]
RECURSIVE Renumber(_, _, _)
Renumber(hs, i, st) ==
    IF hs = <<>> THEN st
    ELSE LET h == Head(hs)
             cur == st.objs[h].id
         IN  Renumber(Tail(hs), i + 1,
                      [ref |-> Put(st.ref, cur, i),
                       objs |-> [st.objs EXCEPT ![h].id = i]])

\* createIndex (lines 61-90): every attribute it sets
CreateIndex(ds) ==
    LET cs == IndexById(ds.categories, EmptyDict)
        objs == CopiedObjects(cs)
        handles == SortedByKey(getCatIds(ds, <<>>, <<>>, <<>>),
                               [h \in DOMAIN objs |-> objs[h].id])
        done == Renumber(handles, 0, [ref |-> EmptyDict, objs |-> objs])
    IN  [anns |-> IndexById(ds.annotations, EmptyDict),
         imgToAnns |-> GroupByImage(ds.annotations, EmptyDict),
         catToImgs |-> GroupImagesByCat(ds.annotations, EmptyDict),
         imgs |-> IndexById(ds.images, EmptyDict),
         cats |-> cs,
         categories |-> [k \in 1..Len(handles) |-> done.objs[handles[k]]],
         classes |-> [k \in 1..Len(handles) |-> objs[handles[k]].name],
         ref |-> done.ref]

\* getAnnIds (lines 92-132); iscrowd is "None", "True" or "False"
getAnnIds(imgIds, catIds, areaRng, iscrowd) ==
    LET known(i) == i \in DOMAIN imgToAnns
        present == SelectSeq(imgIds, known)
        ofImages == IF Len(imgIds) # 0
                    THEN Concat([k \in 1..Len(present) |-> imgToAnns[present[k]]])
                    ELSE dataset.annotations
        byCat(a) == Len(catIds) = 0 \/ InList(a.category_id, catIds)
        byArea(a) == Len(areaRng) = 0 \/ (a.area > areaRng[1] /\ a.area < areaRng[2])
        found == IF Len(imgIds) = 0 /\ Len(catIds) = 0 /\ Len(areaRng) = 0
                 THEN dataset.annotations
                 ELSE SelectSeq(SelectSeq(ofImages, byCat), byArea)
        crowd(a) == a.iscrowd = 1
        kept == IF iscrowd = "True" THEN SelectSeq(found, crowd) ELSE found
    IN  [k \in 1..Len(kept) |-> kept[k].id]

----------------------------------------------------------------------------
(* DatasetUploadHandler *)

\* dict.get(key): the value in a one-element list, or the empty list for None
Get(d, k) == IF k \in DOMAIN d THEN <<d[k]>> ELSE <<>>

\* a variant: the class value without the remap
ClassOf_Raw(ann) == <<ann.category_id>>

\* the "class" / "category_id" of a payload entry (lines 237-239, 261-263)
ClassOf(ann) == Get(original_category_referecences, ann.category_id)

\* get_img_bbox_payload (lines 224-252)
get_img_bbox_payload(as) ==
    [bboxes |-> << [k \in 1..Len(as) |->
                      [point |-> << <<as[k].bbox[1], as[k].bbox[2]>>,
                                    <<as[k].bbox[1] + as[k].bbox[3], as[k].bbox[2]>>,
                                    <<as[k].bbox[1] + as[k].bbox[3], as[k].bbox[2] + as[k].bbox[4]>>,
                                    <<as[k].bbox[1], as[k].bbox[2] + as[k].bbox[4]>> >>,
                       class |-> ClassOf(as[k]),
                       recognition |-> ""]] >>,
     predicted_classes |-> SetToSeq({ClassOf(as[k]) : k \in 1..Len(as)}),
     classes |-> classes]

\* get_img_semantic_segmentation_payload (lines 254-275)
get_img_semantic_segmentation_payload(as) ==
    [annotations |-> [k \in 1..Len(as) |->
                        [segmentation |-> as[k].segmentation,
                         category_id |-> ClassOf(as[k])]],
     predicted_classes |-> SetToSeq({ClassOf(as[k]) : k \in 1..Len(as)}),
     classes |-> classes]

\* the payload type by annotation_type (line 303 and lines 277-287)
PayloadFor(as) ==
    IF annotation_type = "img_bbox" THEN get_img_bbox_payload(as)
    ELSE get_img_semantic_segmentation_payload(as)

\* a variant: get_payload without the image filter
get_payload_AllAnns(img_id) ==
    <<PayloadFor(Load(anns, getAnnIds(<<>>, <<>>, <<>>, "None")))>>

\* get_payload (lines 289-303): the payload in a one-element list, or the
\* empty list for None
get_payload(img_id) ==
    LET image == imgs[img_id]
        as == Load(anns, getAnnIds(<<img_id>>, <<>>, <<>>, "None"))
    IN  IF ~image.on_disk THEN <<>>
        ELSE IF Len(as) = 0 THEN <<>>
        ELSE <<PayloadFor(as)>>

AnnotationTypes == {"img_bbox", "img_semantic_segmentation"}

\* the COCO handler leaves the other subsystems alone
CocoFrame == UNCHANGED <<upvars, dlvars, reqvars, tunvars, agentvars, ptvars>>

\* __init__ and _load_dataset (lines 18-30, 55-59): the file is validated and
\* indexed
LoadDataset ==
    /\ coco_pc = "file"
    /\ \E t \in AnnotationTypes : annotation_type' = t
    /\ IF Validate(data_is_dir, dataset) = "ok"
       THEN LET ix == CreateIndex(dataset) IN
            /\ coco_pc' = "indexed"
            /\ anns' = ix.anns
            /\ imgToAnns' = ix.imgToAnns
            /\ catToImgs' = ix.catToImgs
            /\ imgs' = ix.imgs
            /\ cats' = ix.cats
            /\ categories' = ix.categories
            /\ classes' = ix.classes
            /\ original_category_referecences' = ix.ref
       ELSE /\ coco_pc' = Validate(data_is_dir, dataset)
            /\ UNCHANGED <<anns, imgToAnns, catToImgs, imgs, cats, categories,
                           classes, original_category_referecences>>
    /\ UNCHANGED <<data_is_dir, dataset, last>>
    /\ CocoFrame

\* a call of get_payload(img_id) for an image id of the dataset
GetPayload ==
    /\ coco_pc = "indexed"
    /\ \E i \in DOMAIN imgs :
          last' = [op |-> "get_payload", img |-> i, payload |-> get_payload(i)]
    /\ UNCHANGED <<data_is_dir, dataset, annotation_type, coco_pc, anns, imgToAnns,
                   catToImgs, imgs, cats, categories, classes,
                   original_category_referecences>>
    /\ CocoFrame

\* what the POST of upload_image can give: an exception of the HTTP client, or
\* a response with a status
Statuses == {200, 201, 400, 401, 403, 404, 500}
Outcomes == {[exc |-> TRUE, status |-> 0]} \cup {[exc |-> FALSE, status |-> st] : st \in Statuses}

Return(v) == [kind |-> "return", value |-> v, exc |-> ""]
Raise(e) == [kind |-> "raise", value |-> 0, exc |-> e]

\* a variant: upload_image catching SubscriptionError like any other exception
UploadResult_Swallow(o) ==
    IF o.exc THEN Return(0)
    ELSE IF o.status >= 400 THEN Return(0)
    ELSE Return(1)

\* lines 316-333: what upload_image gives for the outcome of its POST.  403
\* raises SubscriptionError, which the first handler re-raises; 400 returns 0;
\* raise_for_status raises for the other statuses from 400 on and the second
\* handler logs that, as it logs an exception of the POST itself, and the
\* function falls through to return 0; otherwise 1
UploadResult(o) ==
    IF o.exc THEN Return(0)
    ELSE IF o.status = 403 THEN Raise("SubscriptionError")
    ELSE IF o.status = 400 THEN Return(0)
    ELSE IF o.status >= 400 THEN Return(0)
    ELSE Return(1)

\* upload_image(image_id) (lines 305-333) for an image id of the dataset:
\* without a payload nothing is sent and 0 is returned; the file is read
\* outside the try block, so an OSError there escapes; then the POST
UploadImage ==
    /\ coco_pc = "indexed"
    /\ \E i \in DOMAIN imgs, read_ok \in BOOLEAN, o \in Outcomes :
          last' = IF get_payload(i) = <<>>
                  THEN [op |-> "upload_image", img |-> i, posted |-> FALSE,
                        result |-> Return(0)]
                  ELSE IF ~read_ok
                  THEN [op |-> "upload_image", img |-> i, posted |-> FALSE,
                        result |-> Raise("OSError")]
                  ELSE [op |-> "upload_image", img |-> i, posted |-> TRUE,
                        outcome |-> o, result |-> UploadResult(o)]
    /\ UNCHANGED <<data_is_dir, dataset, annotation_type, coco_pc, anns, imgToAnns,
                   catToImgs, imgs, cats, categories, classes,
                   original_category_referecences>>
    /\ CocoFrame

\* the annotation files of the upload_image specification: one annotation,
\* one category, one or two images
InitUploadImage ==
    /\ data_is_dir = TRUE
    /\ \E is \in DistinctSeqs(ImgPool, 2), as \in AnnotationLists :
          /\ Len(is) >= 1
          /\ Len(as) = 1
          /\ dataset = Dataset(AllKeys, is, as,
                               <<[id |-> 1, name |-> "a", supercategory |-> "s"]>>)
    /\ CocoUnloaded

NextCoco ==
    \/ LoadDataset
    \/ GetPayload

NextUploadImage ==
    \/ LoadDataset
    \/ UploadImage

----------------------------------------------------------------------------
(* COCO.getAnnIds and COCO.getImgIds as calls on a loaded handler *)

\* the crowd labels of the annotations the queries run on
CrowdLabels == {0, 1}

\* their areas: 10 at the odd positions of the file, 50 at the even ones
AreaAt(p) == IF p % 2 = 1 THEN 10 ELSE 50

\* the annotation at position p of such a file: its id is its position
QueryAnnotation(p, i, c, crowd) ==
    [id |-> p, image_id |-> i, category_id |-> c, bbox |-> <<p, 0, 1, 1>>,
     segmentation |-> <<p>>, area |-> AreaAt(p), iscrowd |-> crowd]

\* the annotation lists of such files: one to MaxAnns annotations
QueryAnnotationLists ==
    UNION {{[p \in 1..n |-> QueryAnnotation(p, q[p].image_id, q[p].category_id,
                                            q[p].iscrowd)] :
               q \in [1..n -> [image_id : ImgIds, category_id : CatIds,
                               iscrowd : CrowdLabels]]} :
           n \in 1..MaxAnns}

\* an annotation file with two images and two categories
InitQuery ==
    /\ data_is_dir = TRUE
    /\ \E as \in QueryAnnotationLists :
          dataset = Dataset(AllKeys,
                            <<[id |-> 1, file_name |-> "1.jpg", on_disk |-> TRUE],
                              [id |-> 2, file_name |-> "2.jpg", on_disk |-> TRUE]>>,
                            as,
                            <<[id |-> 1, name |-> "a", supercategory |-> "s"],
                              [id |-> 3, name |-> "b", supercategory |-> "s"]>>)
    /\ CocoUnloaded

\* the arguments getImgIds is called with; 9 is no image id and 5 no category
\* id of the file
ImgIdArgs == {<<>>, <<1>>, <<2, 9>>}
CatIdArgs == {<<>>, <<1>>, <<1, 3>>, <<5, 1>>}
AreaRngArgs == {<<>>, <<10, 60>>}
CrowdArgs == {"None", "True", "False"}

\* a call of getAnnIds (lines 92-132) on the loaded handler
GetAnnIds ==
    /\ coco_pc = "indexed"
    /\ \E imgIds \in {<<>>, <<2, 9>>}, catIds \in {<<>>, <<1>>},
          areaRng \in AreaRngArgs, iscrowd \in CrowdArgs :
          last' = [op |-> "getAnnIds", imgIds |-> imgIds, catIds |-> catIds,
                   areaRng |-> areaRng, iscrowd |-> iscrowd,
                   result |-> getAnnIds(imgIds, catIds, areaRng, iscrowd)]
    /\ UNCHANGED <<data_is_dir, dataset, annotation_type, coco_pc, anns, imgToAnns,
                   catToImgs, imgs, cats, categories, classes,
                   original_category_referecences>>
    /\ CocoFrame

\* self.catToImgs[catId] on the defaultdict: the list, empty for a new key
CatToImgsAt(d, c) == IF c \in DOMAIN d THEN d[c] ELSE <<>>

\* a variant: the image set taken from the category whenever it is empty
RECURSIVE ImgIdsLoop_ResetWhenEmpty(_, _, _)
ImgIdsLoop_ResetWhenEmpty(ids, cs, i) ==
    IF cs = <<>> THEN ids
    ELSE ImgIdsLoop_ResetWhenEmpty(
             IF ids = {} THEN Range(CatToImgsAt(catToImgs, Head(cs)))
             ELSE ids \cap Range(CatToImgsAt(catToImgs, Head(cs))),
             Tail(cs), i + 1)

\* lines 182-186: for i, catId in enumerate(catIds): the first category gives
\* the set when no imgIds were given, every other one is intersected with it
RECURSIVE ImgIdsLoop(_, _, _)
ImgIdsLoop(ids, cs, i) ==
    IF cs = <<>> THEN ids
    ELSE ImgIdsLoop(
             IF i = 0 /\ ids = {} THEN Range(CatToImgsAt(catToImgs, Head(cs)))
             ELSE ids \cap Range(CatToImgsAt(catToImgs, Head(cs))),
             Tail(cs), i + 1)

\* getImgIds (lines 168-187): the set ids before list(ids)
getImgIds(imgIds, catIds) ==
    IF Len(imgIds) = 0 /\ Len(catIds) = 0 THEN DOMAIN imgs
    ELSE ImgIdsLoop(Range(imgIds), catIds, 0)

\* the keys the loop's lookups add to the defaultdict catToImgs
RECURSIVE Touched(_, _)
Touched(d, cs) ==
    IF cs = <<>> THEN d
    ELSE Touched(Put(d, Head(cs), CatToImgsAt(d, Head(cs))), Tail(cs))

\* a call of getImgIds on the loaded handler
GetImgIds ==
    /\ coco_pc = "indexed"
    /\ \E imgIds \in ImgIdArgs, catIds \in CatIdArgs :
          /\ last' = [op |-> "getImgIds", imgIds |-> imgIds, catIds |-> catIds,
                      result |-> SetToSeq(getImgIds(imgIds, catIds))]
          /\ catToImgs' = IF Len(imgIds) = 0 /\ Len(catIds) = 0 THEN catToImgs
                          ELSE Touched(catToImgs, catIds)
    /\ UNCHANGED <<data_is_dir, dataset, annotation_type, coco_pc, anns, imgToAnns,
                   imgs, cats, categories, classes, original_category_referecences>>
    /\ CocoFrame

NextQuery ==
    \/ LoadDataset
    \/ GetAnnIds
    \/ GetImgIds

----------------------------------------------------------------------------
(* utils.send_request *)

DefaultHost == "https://api.unitlab.ai"
EnterpriseHost == "https://api-enterprise.unitlab.ai"
CustomHost == "http://localhost:8000"

\* the values UNITLAB_BASE_URL can have when a call starts: unset, empty, or a
\* host
BaseUrls == {<<>>, <<"">>, <<CustomHost>>, <<DefaultHost>>, <<EnterpriseHost>>}

\* the statuses a host answers with
ReqStatuses == {200, 304, 401, 404, 500}

\* response.ok (lines 34, 39, 48): raise_for_status would not raise, which it
\* does for the statuses from 400 to 599
Ok(status) == ~(status >= 400 /\ status < 600)

\* if os.environ.get("UNITLAB_BASE_URL") (line 29): set and not empty
Configured(url) == url # <<>> /\ url[1] # ""

\* a variant: the enterprise host tried after any error of the default host
TryEnterprise_AnyError(status) == ~Ok(status)

\* line 43: the enterprise host is tried when the default host answered 401
TryEnterprise(status) == status = 401

\* a variant: 401 reported like any other error status
Finish_NoAuth(status) ==
    IF ~Ok(status) THEN Raise("HTTPError") ELSE Return(status)

\* lines 52-56: the end of the function for the last response
Finish(status) ==
    IF status = 401 THEN Raise("AuthenticationError")
    ELSE IF ~Ok(status) THEN Raise("HTTPError")
    ELSE Return(status)

\* a variant: the host of a fallback success not written to the environment
Remember_Keep(host) == base_url

\* lines 40 and 49: os.environ["UNITLAB_BASE_URL"] = host
Remember(host) == <<host>>

\* a request sent to a host and the status of its answer
Sent(host, status) == [host |-> host, status |-> status]

\* send_request leaves the other subsystems alone
ReqFrame == UNCHANGED <<upvars, dlvars, cocovars, tunvars, agentvars, ptvars>>

\* the variables of send_request when it is not in use
ReqIdle ==
    /\ base_url = <<>>
    /\ sr_pc = "idle"
    /\ sr_sent = <<>>
    /\ sr_result = <<>>
    /\ sr_url0 = <<>>
    /\ sr_fallback = <<>>
    /\ sr_fb0 = <<>>
    /\ sr_calls = 0

\* the process starts with whatever the user exported
InitRequest ==
    /\ base_url \in BaseUrls
    /\ sr_pc = "idle"
    /\ sr_sent = <<>>
    /\ sr_result = <<>>
    /\ sr_url0 = <<>>
    /\ sr_fallback = <<>>
    /\ sr_fb0 = <<>>
    /\ sr_calls = 0

\* lines 27-30 and 37: a call starts; the configured host is tried first when
\* there is one, the default host otherwise
SendRequest ==
    /\ sr_pc = "idle"
    /\ sr_calls < MaxCalls
    /\ sr_calls' = sr_calls + 1
    /\ sr_sent' = <<>>
    /\ sr_result' = <<>>
    /\ sr_url0' = base_url
    /\ sr_fb0' = sr_fallback
    /\ sr_pc' = IF Configured(base_url) THEN "configured" ELSE "default"
    /\ UNCHANGED <<base_url, sr_fallback>>
    /\ ReqFrame

\* lines 30-35: the configured host answers; an ok response is returned as it
\* is, any other is dropped and the default host comes next
AnswerConfigured ==
    /\ sr_pc = "configured"
    /\ \E status \in ReqStatuses :
          /\ sr_sent' = Append(sr_sent, Sent(base_url[1], status))
          /\ IF Ok(status)
             THEN /\ sr_result' = <<Return(status)>>
                  /\ sr_pc' = "idle"
             ELSE /\ sr_pc' = "default"
                  /\ UNCHANGED sr_result
    /\ UNCHANGED <<base_url, sr_url0, sr_fallback, sr_fb0, sr_calls>>
    /\ ReqFrame

\* lines 37-43 and 52-55: the default host answers; an ok response is
\* remembered and returned, 401 leads to the enterprise host, any other status
\* ends the call
AnswerDefault ==
    /\ sr_pc = "default"
    /\ \E status \in ReqStatuses :
          /\ sr_sent' = Append(sr_sent, Sent(DefaultHost, status))
          /\ IF Ok(status)
             THEN /\ base_url' = Remember(DefaultHost)
                  /\ sr_fallback' = <<DefaultHost>>
                  /\ sr_result' = <<Return(status)>>
                  /\ sr_pc' = "idle"
             ELSE IF TryEnterprise(status)
             THEN /\ sr_pc' = "enterprise"
                  /\ UNCHANGED <<base_url, sr_fallback, sr_result>>
             ELSE /\ sr_result' = <<Finish(status)>>
                  /\ sr_pc' = "idle"
                  /\ UNCHANGED <<base_url, sr_fallback>>
    /\ UNCHANGED <<sr_url0, sr_fb0, sr_calls>>
    /\ ReqFrame

\* lines 44-55: the enterprise host answers; an ok response is remembered and
\* returned, any other ends the call
AnswerEnterprise ==
    /\ sr_pc = "enterprise"
    /\ \E status \in ReqStatuses :
          /\ sr_sent' = Append(sr_sent, Sent(EnterpriseHost, status))
          /\ IF Ok(status)
             THEN /\ base_url' = Remember(EnterpriseHost)
                  /\ sr_fallback' = <<EnterpriseHost>>
                  /\ sr_result' = <<Return(status)>>
             ELSE /\ sr_result' = <<Finish(status)>>
                  /\ UNCHANGED <<base_url, sr_fallback>>
    /\ sr_pc' = "idle"
    /\ UNCHANGED <<sr_url0, sr_fb0, sr_calls>>
    /\ ReqFrame

NextRequest ==
    \/ SendRequest
    \/ AnswerConfigured
    \/ AnswerDefault
    \/ AnswerEnterprise

----------------------------------------------------------------------------
(* CloudflareTunnel.setup (src/src/unitlab/tunnel_config.py) *)

\* how a cloudflared command run with subprocess.run can end: exit code 0, a
\* non-zero exit code, or an exception of subprocess.run (no such binary)
RunOutcomes == {"ok", "failed", "exc"}

\* what the tunnel list shows: the tunnel, no such tunnel, a non-zero exit
\* code, or an exception (of the command or of json.loads)
ListOutcomes == {"found", "absent", "failed", "exc"}

\* how tunnel create ends: exit code 0 with the id in its output, exit code 0
\* without it, a non-zero exit code, or an exception
CreateOutcomes == {"id", "noid", "failed", "exc"}

\* how start_tunnel's Popen and the poll after 5 seconds end
StartOutcomes == {"running", "exited", "exc"}

\* login (lines 34-51): True for exit code 0
login(o) == o = "ok"

\* create_tunnel (lines 53-110): True when the tunnel is listed, or was created
\* and its id is in the output or in a second listing
create_tunnel(listed, created, relisted) ==
    IF listed = "exc" THEN FALSE
    ELSE IF listed = "found" THEN TRUE
    ELSE IF created = "exc" \/ created = "failed" THEN FALSE
    ELSE IF created = "id" THEN TRUE
    ELSE relisted = "found"

\* a variant: configure_dns returning False unless both routes were configured
configure_dns_Strict(jupyter, ssh) == jupyter = "ok" /\ ssh = "ok"

\* configure_dns (lines 112-147): a non-zero exit code of a route command is
\* printed as a warning; only an exception gives False
configure_dns(jupyter, ssh) == jupyter # "exc" /\ ssh # "exc"

\* start_tunnel (lines 182-209): the process when poll() gives None after the
\* wait, None otherwise
start_tunnel(o) == o = "running"

\* a variant: setup going on after a failed step
Continue_Always(ok) == TRUE

\* lines 215-224: `if not self.step(): return None`
Continue(ok) == ok

\* an executed step and how it ended
Step(name, detail, ok) == [step |-> name, detail |-> detail, ok |-> ok]

\* setup leaves the other subsystems alone
TunFrame == UNCHANGED <<upvars, dlvars, cocovars, reqvars, agentvars, ptvars>>

\* the tunnel variables when no tunnel is set up
TunIdle ==
    /\ tn_cert = FALSE
    /\ tn_cert0 = FALSE
    /\ tn_pc = "idle"
    /\ tn_steps = <<>>
    /\ tn_routes = [jupyter |-> "notrun", ssh |-> "notrun"]
    /\ tn_proc = "none"
    /\ tn_result = <<>>

\* setup is called on a fresh CloudflareTunnel; the machine may have logged in
\* before
InitTunnel ==
    /\ tn_cert \in BOOLEAN
    /\ tn_cert0 = tn_cert
    /\ tn_pc = "setup"
    /\ tn_steps = <<>>
    /\ tn_routes = [jupyter |-> "notrun", ssh |-> "notrun"]
    /\ tn_proc = "none"
    /\ tn_result = <<>>

\* line 214: login is needed when cert.pem does not exist
Setup ==
    /\ tn_pc = "setup"
    /\ tn_pc' = IF ~tn_cert THEN "login" ELSE "create_tunnel"
    /\ UNCHANGED <<tn_cert, tn_cert0, tn_steps, tn_routes, tn_proc, tn_result>>
    /\ TunFrame

\* lines 215-216: login; a successful login leaves cert.pem
Login ==
    /\ tn_pc = "login"
    /\ \E o \in RunOutcomes :
          /\ tn_steps' = Append(tn_steps, Step("login", o, login(o)))
          /\ tn_cert' = (tn_cert \/ login(o))
          /\ IF Continue(login(o))
             THEN tn_pc' = "create_tunnel" /\ UNCHANGED tn_result
             ELSE tn_pc' = "done" /\ tn_result' = <<Return("None")>>
    /\ UNCHANGED <<tn_cert0, tn_routes, tn_proc>>
    /\ TunFrame

\* lines 219-220: create_tunnel
CreateTunnel ==
    /\ tn_pc = "create_tunnel"
    /\ \E listed \in ListOutcomes, created \in CreateOutcomes,
          relisted \in ListOutcomes \ {"exc"} :
          LET ok == create_tunnel(listed, created, relisted) IN
          /\ tn_steps' = Append(tn_steps, Step("create_tunnel", listed, ok))
          /\ IF Continue(ok)
             THEN tn_pc' = "configure_dns" /\ UNCHANGED tn_result
             ELSE tn_pc' = "done" /\ tn_result' = <<Return("None")>>
    /\ UNCHANGED <<tn_cert, tn_cert0, tn_routes, tn_proc>>
    /\ TunFrame

\* lines 223-224: configure_dns; the SSH route command is not run when the
\* Jupyter one raised
ConfigureDns ==
    /\ tn_pc = "configure_dns"
    /\ \E jupyter \in RunOutcomes, ssh \in RunOutcomes \cup {"notrun"} :
          /\ (ssh = "notrun") <=> (jupyter = "exc")
          /\ tn_routes' = [jupyter |-> jupyter, ssh |-> ssh]
          /\ tn_steps' = Append(tn_steps, Step("configure_dns", jupyter,
                                               configure_dns(jupyter, ssh)))
          /\ IF Continue(configure_dns(jupyter, ssh))
             THEN tn_pc' = "create_config_file" /\ UNCHANGED tn_result
             ELSE tn_pc' = "done" /\ tn_result' = <<Return("None")>>
    /\ UNCHANGED <<tn_cert, tn_cert0, tn_proc>>
    /\ TunFrame

\* line 227 and lines 149-180: create_config_file writes the file; it catches
\* nothing, so an error of open or of the write leaves setup as an exception
CreateConfigFile ==
    /\ tn_pc = "create_config_file"
    /\ \E written \in BOOLEAN :
          /\ tn_steps' = Append(tn_steps, Step("create_config_file",
                                               IF written THEN "ok" ELSE "exc", written))
          /\ IF written
             THEN tn_pc' = "start_tunnel" /\ UNCHANGED tn_result
             ELSE tn_pc' = "done" /\ tn_result' = <<Raise("OSError")>>
    /\ UNCHANGED <<tn_cert, tn_cert0, tn_routes, tn_proc>>
    /\ TunFrame

\* lines 230-238: start_tunnel and the end of setup
StartTunnel ==
    /\ tn_pc = "start_tunnel"
    /\ \E o \in StartOutcomes :
          /\ tn_steps' = Append(tn_steps, Step("start_tunnel", o, start_tunnel(o)))
          /\ tn_proc' = IF o = "exc" THEN "none" ELSE o
          /\ tn_result' = IF start_tunnel(o) THEN <<Return("process")>>
                          ELSE <<Return("None")>>
    /\ tn_pc' = "done"
    /\ UNCHANGED <<tn_cert, tn_cert0, tn_routes>>
    /\ TunFrame

NextTunnel ==
    \/ Setup
    \/ Login
    \/ CreateTunnel
    \/ ConfigureDns
    \/ CreateConfigFile
    \/ StartTunnel

----------------------------------------------------------------------------
(* The device agent: metrics_loop and cleanup_device_agent (client.py) *)

\* the child processes of the agent
Children == {"jupyter", "tunnel"}

\* self.jupyter_proc / self.tunnel_proc
Handle(p) == IF p = "jupyter" THEN jupyter_proc ELSE tunnel_proc

\* self.<p>_proc = None (lines 541, 545)
SetNone(p) ==
    IF p = "jupyter" THEN jupyter_proc' = "None" /\ UNCHANGED tunnel_proc
    ELSE tunnel_proc' = "None" /\ UNCHANGED jupyter_proc

\* a position of a thread: the statement and the child it concerns
At(stmt, p) == [at |-> stmt, p |-> p]

\* self.<p>_proc.method(): the attribute is read again and the method looked
\* up on what it holds; on None that is an AttributeError
CallOn(thread, method, p) ==
    none_calls' = IF Handle(p) = "None" THEN none_calls \cup {<<thread, method, p>>}
                  ELSE none_calls

\* the services run_device_agent starts, in the order of lines 571, 579, 597
ServiceOrder == <<"start_jupyter", "setup_tunnels", "metrics_thread">>

\* one entry of services: the service and whether starting it succeeded
Service(name, ok) == [service |-> name, ok |-> ok]

\* how start_jupyter's Popen and its wait for the port can end: Popen raises;
\* a line with the port is read; no such line is read (end of output, the 30
\* seconds are over, or readline raises)
JupyterOutcomes == {"popen_error", "port", "no_port"}

\* start_jupyter (lines 323-365): its return value
start_jupyter(o) == o = "port"

\* how `systemctl is-active ssh` can end
SshOutcomes == {"active", "inactive", "exception"}

\* check_ssh (lines 392-415): its return value
check_ssh(o) == o = "active"

\* how api_session.post can end: <<>> when it raises (no response), else
\* <<status>>
PostOutcomes == {<<>>, <<200>>, <<500>>}

\* _post_device (lines 305-321): raise_for_status raises for an error
\* status, and every exception is raised again
post_device(o) == IF o = <<>> \/ ~Ok(o[1]) THEN "raised" ELSE "response"

\* one service report: the service and the status it carries
ServiceReport(service, status) == [service |-> service, status |-> status]

\* report_services (lines 417-466): the reports one call sends, what check_ssh
\* returned in it (<<>> when it was not called) and whether the call raised.
\* The try block spans the whole body, so an exception of the Jupyter POST
\* skips everything after it; the outcome of the SSH POST changes nothing.
report_services(jupyter, ssh) ==
    LET jupyter_data == ServiceReport("jupyter", "online")
        ssh_available == check_ssh(ssh)
        ssh_data == ServiceReport("ssh", IF ssh_available THEN "online" ELSE "offline")
    IN  IF post_device(jupyter) = "raised"
        THEN [sent |-> <<jupyter_data>>, ssh_available |-> <<>>, raised |-> FALSE]
        ELSE [sent |-> <<jupyter_data, ssh_data>>,
              ssh_available |-> <<ssh_available>>, raised |-> FALSE]

\* self.tunnel_manager: initialize_device_agent (lines 272-275) always
\* creates the manager, CloudflareTunnel being imported unconditionally
tunnel_manager == "manager"

\* how tunnel_manager.setup can end: the cloudflared process, None, or an
\* exception
SetupOutcomes == {"proc", "None", "exception"}

\* setup_tunnels (lines 367-390): its return value
setup_tunnels(port, manager, o) ==
    IF port = <<>> THEN FALSE
    ELSE IF manager = "None" THEN TRUE
    ELSE o = "proc"

\* lines 579-582: where run_device_agent goes when setup_tunnels failed
AfterTunnelFailure_Return == At("returned", "-")
AfterTunnelFailure == At("cleanup", "-")

\* the agent leaves the other subsystems alone
AgentFrame == UNCHANGED <<upvars, dlvars, cocovars, reqvars, tunvars, ptvars>>

\* the agent's variables when no agent runs (__init__, lines 80-84)
AgentIdle ==
    /\ running = TRUE
    /\ jupyter_proc = "None"
    /\ tunnel_proc = "None"
    /\ alive = [p \in Children |-> FALSE]
    /\ main_pc = At("idle", "-")
    /\ metrics_pc = At("idle", "-")
    /\ sleeps = 0
    /\ none_calls = {}
    /\ jupyter_port = <<>>
    /\ started = {}
    /\ signalled = {}
    /\ services = <<>>
    /\ metrics_sent = FALSE
    /\ report = <<>>

\* run_device_agent after line 598: Jupyter and the tunnel were started, the
\* metrics thread has been started, the main thread enters its loop
InitAgent ==
    /\ running = TRUE
    /\ jupyter_proc = "proc"
    /\ tunnel_proc = "proc"
    /\ alive \in [Children -> BOOLEAN]
    /\ main_pc = At("loop", "-")
    /\ metrics_pc = At("while", "-")
    /\ sleeps = 0
    /\ none_calls = {}
    /\ jupyter_port = <<8888>>
    /\ started = Children
    /\ signalled = {}
    /\ services = [i \in 1..3 |-> Service(ServiceOrder[i], TRUE)]
    /\ metrics_sent = FALSE
    /\ \E jupyter \in PostOutcomes, ssh \in SshOutcomes :
          report = <<report_services(jupyter, ssh)>>

\* run_device_agent is called on an initialized client (main.py, lines 159-167)
InitRun ==
    /\ running = TRUE
    /\ jupyter_proc = "None"
    /\ tunnel_proc = "None"
    /\ alive = [p \in Children |-> FALSE]
    /\ main_pc = At("check_ssh", "-")
    /\ metrics_pc = At("idle", "-")
    /\ sleeps = 0
    /\ none_calls = {}
    /\ jupyter_port = <<>>
    /\ started = {}
    /\ signalled = {}
    /\ services = <<>>
    /\ metrics_sent = FALSE
    /\ report = <<>>

\* ---- the start of run_device_agent ----

\* line 568: self.check_ssh(), whose result is not used
MainCheckSsh ==
    /\ main_pc = At("check_ssh", "-")
    /\ main_pc' = At("start_jupyter", "-")
    /\ UNCHANGED <<running, jupyter_proc, tunnel_proc, alive, metrics_pc, sleeps,
                   none_calls, startvars, signalled, metrics_sent>>
    /\ AgentFrame

\* lines 571-573 with start_jupyter (lines 323-365): when no port was read the
\* process is sent terminate() and the handle is dropped
MainStartJupyter ==
    /\ main_pc = At("start_jupyter", "-")
    /\ \E o \in JupyterOutcomes, up \in BOOLEAN :
          /\ started' = IF o = "popen_error" THEN started ELSE started \cup {"jupyter"}
          /\ alive' = [alive EXCEPT !["jupyter"] = o = "port" \/ (o = "no_port" /\ up)]
          /\ jupyter_proc' = IF o = "port" THEN "proc" ELSE "None"
          /\ jupyter_port' = IF o = "port" THEN <<8888>> ELSE jupyter_port
          /\ signalled' = IF o = "no_port" THEN signalled \cup {"jupyter"} ELSE signalled
          /\ services' = Append(services, Service("start_jupyter", start_jupyter(o)))
          /\ main_pc' = IF start_jupyter(o) THEN At("setup_tunnels", "-")
                        ELSE At("returned", "-")
    /\ UNCHANGED <<running, tunnel_proc, metrics_pc, sleeps, none_calls,
                   metrics_sent, report>>
    /\ AgentFrame

\* lines 579-582 with setup_tunnels (lines 367-390): report_services is
\* called when the tunnel process was started
MainSetupTunnels ==
    /\ main_pc = At("setup_tunnels", "-")
    /\ \E o \in SetupOutcomes, jupyter \in PostOutcomes, ssh \in SshOutcomes :
          LET ok == setup_tunnels(jupyter_port, tunnel_manager, o)
              called == jupyter_port # <<>> /\ tunnel_manager # "None"
              proc == called /\ o = "proc"
          IN  /\ tunnel_proc' = IF proc THEN "proc" ELSE tunnel_proc
              /\ started' = IF proc THEN started \cup {"tunnel"} ELSE started
              /\ alive' = IF proc THEN [alive EXCEPT !["tunnel"] = TRUE] ELSE alive
              /\ report' = IF proc THEN Append(report, report_services(jupyter, ssh))
                            ELSE report
              /\ services' = Append(services, Service("setup_tunnels", ok))
              /\ main_pc' = IF ok THEN At("start_metrics", "-") ELSE AfterTunnelFailure
    /\ UNCHANGED <<running, jupyter_proc, metrics_pc, sleeps, none_calls,
                   jupyter_port, signalled, metrics_sent>>
    /\ AgentFrame

\* lines 597-598: the metrics thread is started
MainStartMetrics ==
    /\ main_pc = At("start_metrics", "-")
    /\ metrics_pc' = At("while", "-")
    /\ services' = Append(services, Service("metrics_thread", TRUE))
    /\ main_pc' = At("loop", "-")
    /\ UNCHANGED <<running, jupyter_proc, tunnel_proc, alive, sleeps, none_calls,
                   jupyter_port, started, report, signalled, metrics_sent>>
    /\ AgentFrame

\* ---- the environment ----

\* a child process exits, by itself or after a signal
Dies(p) ==
    /\ alive[p]
    /\ alive' = [alive EXCEPT ![p] = FALSE]
    /\ UNCHANGED <<running, jupyter_proc, tunnel_proc, main_pc, metrics_pc, sleeps,
                   none_calls>>
    /\ UNCHANGED <<startvars, signalled, metrics_sent>>
    /\ AgentFrame

\* _handle_shutdown (lines 286-290): SIGINT or SIGTERM arrives
HandleShutdown ==
    /\ running
    /\ running' = FALSE
    /\ UNCHANGED <<jupyter_proc, tunnel_proc, alive, main_pc, metrics_pc, sleeps,
                   none_calls>>
    /\ UNCHANGED <<startvars, signalled, metrics_sent>>
    /\ AgentFrame

\* ---- the main thread ----

\* the statement after the block of a child in cleanup_device_agent
AfterStop(p) == IF p = "jupyter" THEN At("check", "tunnel") ELSE At("done", "-")

\* lines 602-607: the main loop ends when running is false
MainLoop ==
    /\ main_pc = At("loop", "-")
    /\ ~running
    /\ main_pc' = At("cleanup", "-")
    /\ UNCHANGED <<running, jupyter_proc, tunnel_proc, alive, metrics_pc, sleeps,
                   none_calls>>
    /\ UNCHANGED <<startvars, signalled, metrics_sent>>
    /\ AgentFrame

\* line 613: self.running = False
Cleanup ==
    /\ main_pc = At("cleanup", "-")
    /\ running' = FALSE
    /\ main_pc' = At("check", "jupyter")
    /\ UNCHANGED <<jupyter_proc, tunnel_proc, alive, metrics_pc, sleeps, none_calls>>
    /\ UNCHANGED <<startvars, signalled, metrics_sent>>
    /\ AgentFrame

\* lines 616 and 625: if self.<p>_proc:
MainCheck(p) ==
    /\ main_pc = At("check", p)
    /\ main_pc' = IF Handle(p) = "proc" THEN At("terminate", p) ELSE AfterStop(p)
    /\ UNCHANGED <<running, jupyter_proc, tunnel_proc, alive, metrics_pc, sleeps,
                   none_calls>>
    /\ UNCHANGED <<startvars, signalled, metrics_sent>>
    /\ AgentFrame

\* lines 618 and 627: self.<p>_proc.terminate(); an AttributeError leaves
\* cleanup_device_agent
MainTerminate(p) ==
    /\ main_pc = At("terminate", p)
    /\ CallOn("main", "terminate", p)
    /\ main_pc' = IF Handle(p) = "None" THEN At("AttributeError", p) ELSE At("wait", p)
    /\ signalled' = IF Handle(p) = "None" THEN signalled ELSE signalled \cup {p}
    /\ UNCHANGED <<running, jupyter_proc, tunnel_proc, alive, metrics_pc, sleeps>>
    /\ UNCHANGED <<startvars, metrics_sent>>
    /\ AgentFrame

\* lines 619-621 and 628-630: self.<p>_proc.wait(timeout=5) returns when the
\* child has exited and raises TimeoutExpired when it has not
MainWait(p) ==
    /\ main_pc = At("wait", p)
    /\ CallOn("main", "wait", p)
    /\ main_pc' = IF Handle(p) = "None" THEN At("AttributeError", p)
                  ELSE IF alive[p] THEN At("kill", p)
                  ELSE AfterStop(p)
    /\ UNCHANGED <<running, jupyter_proc, tunnel_proc, alive, metrics_pc, sleeps>>
    /\ UNCHANGED <<startvars, signalled, metrics_sent>>
    /\ AgentFrame

\* lines 622 and 631: self.<p>_proc.kill()
MainKill(p) ==
    /\ main_pc = At("kill", p)
    /\ CallOn("main", "kill", p)
    /\ IF Handle(p) = "None"
       THEN main_pc' = At("AttributeError", p) /\ UNCHANGED <<alive, signalled>>
       ELSE /\ main_pc' = AfterStop(p)
            /\ alive' = [alive EXCEPT ![p] = FALSE]
            /\ signalled' = signalled \cup {p}
    /\ UNCHANGED <<running, jupyter_proc, tunnel_proc, metrics_pc, sleeps>>
    /\ UNCHANGED <<startvars, metrics_sent>>
    /\ AgentFrame

\* ---- the metrics thread ----

\* the statement after the check of a child in metrics_loop
AfterCheck(p) == IF p = "jupyter" THEN At("check", "tunnel") ELSE At("sleep", "-")

\* line 534: while self.running
MetricsWhile ==
    /\ metrics_pc = At("while", "-")
    /\ metrics_pc' = IF running THEN At("send", "-") ELSE At("stopped", "-")
    /\ UNCHANGED <<running, jupyter_proc, tunnel_proc, alive, main_pc, sleeps,
                   none_calls>>
    /\ UNCHANGED <<startvars, signalled, metrics_sent>>
    /\ AgentFrame

\* line 536: send_metrics, which catches its own exceptions
MetricsSend ==
    /\ metrics_pc = At("send", "-")
    /\ metrics_pc' = At("check", "jupyter")
    /\ metrics_sent' = TRUE
    /\ UNCHANGED <<running, jupyter_proc, tunnel_proc, alive, main_pc, sleeps,
                   none_calls>>
    /\ UNCHANGED <<startvars, signalled>>
    /\ AgentFrame

\* lines 539 and 543, left operand: self.<p>_proc and ...
MetricsCheck(p) ==
    /\ metrics_pc = At("check", p)
    /\ metrics_pc' = IF Handle(p) = "proc" THEN At("poll", p) ELSE AfterCheck(p)
    /\ UNCHANGED <<running, jupyter_proc, tunnel_proc, alive, main_pc, sleeps,
                   none_calls>>
    /\ UNCHANGED <<startvars, signalled, metrics_sent>>
    /\ AgentFrame

\* lines 539 and 543, right operand: self.<p>_proc.poll() is not None; an
\* AttributeError is caught at line 547
MetricsPoll(p) ==
    /\ metrics_pc = At("poll", p)
    /\ CallOn("metrics", "poll", p)
    /\ metrics_pc' = IF Handle(p) = "None" THEN At("sleep", "-")
                     ELSE IF ~alive[p] THEN At("clear", p)
                     ELSE AfterCheck(p)
    /\ UNCHANGED <<running, jupyter_proc, tunnel_proc, alive, main_pc, sleeps>>
    /\ UNCHANGED <<startvars, signalled, metrics_sent>>
    /\ AgentFrame

\* lines 541 and 545: self.<p>_proc = None
MetricsClear(p) ==
    /\ metrics_pc = At("clear", p)
    /\ SetNone(p)
    /\ metrics_pc' = AfterCheck(p)
    /\ UNCHANGED <<running, alive, main_pc, sleeps, none_calls>>
    /\ UNCHANGED <<startvars, signalled, metrics_sent>>
    /\ AgentFrame

\* lines 551-554: up to three sleeps of a second, cut short when running is
\* false
MetricsSleep ==
    /\ metrics_pc = At("sleep", "-")
    /\ IF sleeps = 3 \/ ~running
       THEN sleeps' = 0 /\ metrics_pc' = At("while", "-")
       ELSE sleeps' = sleeps + 1 /\ UNCHANGED metrics_pc
    /\ UNCHANGED <<running, jupyter_proc, tunnel_proc, alive, main_pc, none_calls>>
    /\ UNCHANGED <<startvars, signalled, metrics_sent>>
    /\ AgentFrame

NextAgent ==
    \/ \E p \in Children : Dies(p)
    \/ HandleShutdown
    \/ MainLoop
    \/ Cleanup
    \/ \E p \in Children : MainCheck(p)
    \/ \E p \in Children : MainTerminate(p)
    \/ \E p \in Children : MainWait(p)
    \/ \E p \in Children : MainKill(p)
    \/ MetricsWhile
    \/ MetricsSend
    \/ \E p \in Children : MetricsCheck(p)
    \/ \E p \in Children : MetricsPoll(p)
    \/ \E p \in Children : MetricsClear(p)
    \/ MetricsSleep

\* the steps of the main thread
MainThread ==
    \/ MainCheckSsh
    \/ MainStartJupyter
    \/ MainSetupTunnels
    \/ MainStartMetrics
    \/ MainLoop
    \/ Cleanup
    \/ \E p \in Children : MainCheck(p) \/ MainTerminate(p) \/ MainWait(p) \/ MainKill(p)

\* the steps of the metrics thread
MetricsThread ==
    \/ MetricsWhile
    \/ MetricsSend
    \/ \E p \in Children : MetricsCheck(p) \/ MetricsPoll(p) \/ MetricsClear(p)
    \/ MetricsSleep

\* run_device_agent from its first line
NextRun ==
    \/ MainCheckSsh
    \/ MainStartJupyter
    \/ MainSetupTunnels
    \/ MainStartMetrics
    \/ NextAgent

----------------------------------------------------------------------------
(* PersistentTunnel.start and stop (persistent_tunnel.py) *)

\* the child processes start creates
PtChildren == {"jupyter", "tunnel"}

\* how a POST to the Cloudflare API can end: status 200 or 201; another status
\* with "already exists" in the body; another status without it;
\* requests.post raises
PtPostOutcomes == {"ok", "exists", "refused", "raised"}

\* one entry of pt_steps: the step and what it returned; "raised" when it
\* raised instead
PtStep(name, result) == [step |-> name, result |-> result]

\* create_new_tunnel (lines 82-120): its return value
create_new_tunnel(post) ==
    IF post = "raised" THEN "raised"
    ELSE IF post = "ok" THEN "cred_file"
    ELSE "None"

\* create_dns_record (lines 122-204): its return value. A refused SSH record
\* is printed and True is returned all the same.
create_dns_record(tunnel_id, main, ssh) ==
    IF tunnel_id = <<>> THEN "False"
    ELSE IF main = "raised" THEN "raised"
    ELSE IF main = "refused" THEN "False"
    ELSE IF ssh = "raised" THEN "raised"
    ELSE "True"

\* the DNS records that exist after create_dns_record
DnsRecords(tunnel_id, main, ssh) ==
    IF tunnel_id = <<>> THEN {}
    ELSE IF main \in {"raised", "refused"} THEN {}
    ELSE IF ssh = "ok" THEN {"main", "ssh"}
    ELSE {"main"}

\* create_access_application (lines 206-256): its return value
create_access_application(app, policy) ==
    IF app = "raised" THEN "raised"
    ELSE IF app = "ok"
         THEN IF policy = "raised" THEN "raised"
              ELSE IF policy = "ok" THEN "True"
              ELSE "False"
    ELSE IF app = "exists" THEN "True"
    ELSE "False"

\* create_tunnel_config (lines 258-286): the file name, or the OSError of
\* open
create_tunnel_config(written) == IF written THEN "config_file" ELSE "raised"

\* PersistentTunnel.start_jupyter (lines 364-386): True unless Popen raises
persistent_start_jupyter(popen) == IF popen = "started" THEN "True" ELSE "raised"

\* PersistentTunnel.start_tunnel (lines 399-435): get_cloudflared_path or
\* Popen may raise; False when the process has exited after two seconds
persistent_start_tunnel(path, popen, polled) ==
    IF path = "unsupported" \/ popen = "popen_error" THEN "raised"
    ELSE IF polled = "exited" THEN "False"
    ELSE "True"

\* start (lines 439-489) uses no return value of its steps: only an exception
\* leaves the try block
PtContinue(result) == result # "raised"

\* the statement after a step
PtAfter(result, next) == IF PtContinue(result) THEN next ELSE "stop"

\* PersistentTunnel leaves the other subsystems alone
PtFrame == UNCHANGED <<upvars, dlvars, cocovars, reqvars, tunvars, agentvars>>

\* the variables when start was not called (__init__, lines 54-57)
PtIdle ==
    /\ pt_pc = "idle"
    /\ pt_tunnel_id = <<>>
    /\ pt_dns = {}
    /\ pt_steps = <<>>
    /\ pt_proc = [p \in PtChildren |-> "none"]
    /\ pt_signalled = {}
    /\ pt_announced = FALSE
    /\ pt_result = <<>>

\* start is called on a new PersistentTunnel (run, line 520)
InitPersistent ==
    /\ pt_pc = "create_new_tunnel"
    /\ pt_tunnel_id = <<>>
    /\ pt_dns = {}
    /\ pt_steps = <<>>
    /\ pt_proc = [p \in PtChildren |-> "none"]
    /\ pt_signalled = {}
    /\ pt_announced = FALSE
    /\ pt_result = <<>>

\* line 449: cred_file = self.create_new_tunnel()
PtCreateNewTunnel ==
    /\ pt_pc = "create_new_tunnel"
    /\ \E post \in PtPostOutcomes :
          LET result == create_new_tunnel(post)
          IN  /\ pt_tunnel_id' = IF post = "ok" THEN <<"id">> ELSE pt_tunnel_id
              /\ pt_steps' = Append(pt_steps, PtStep("create_new_tunnel", result))
              /\ pt_pc' = PtAfter(result, "create_dns_record")
    /\ UNCHANGED <<pt_dns, pt_proc, pt_signalled, pt_announced, pt_result>>
    /\ PtFrame

\* line 453: self.create_dns_record()
PtCreateDnsRecord ==
    /\ pt_pc = "create_dns_record"
    /\ \E main \in PtPostOutcomes, ssh \in PtPostOutcomes :
          LET result == create_dns_record(pt_tunnel_id, main, ssh)
          IN  /\ pt_dns' = DnsRecords(pt_tunnel_id, main, ssh)
              /\ pt_steps' = Append(pt_steps, PtStep("create_dns_record", result))
              /\ pt_pc' = PtAfter(result, "create_access_application")
    /\ UNCHANGED <<pt_tunnel_id, pt_proc, pt_signalled, pt_announced, pt_result>>
    /\ PtFrame

\* line 456: self.create_access_application()
PtCreateAccessApplication ==
    /\ pt_pc = "create_access_application"
    /\ \E app \in PtPostOutcomes, policy \in PtPostOutcomes :
          LET result == create_access_application(app, policy)
          IN  /\ pt_steps' = Append(pt_steps, PtStep("create_access_application", result))
              /\ pt_pc' = PtAfter(result, "create_tunnel_config")
    /\ UNCHANGED <<pt_tunnel_id, pt_dns, pt_proc, pt_signalled, pt_announced,
                   pt_result>>
    /\ PtFrame

\* line 459: config_file = self.create_tunnel_config(cred_file)
PtCreateTunnelConfig ==
    /\ pt_pc = "create_tunnel_config"
    /\ \E written \in BOOLEAN :
          LET result == create_tunnel_config(written)
          IN  /\ pt_steps' = Append(pt_steps, PtStep("create_tunnel_config", result))
              /\ pt_pc' = PtAfter(result, "start_jupyter")
    /\ UNCHANGED <<pt_tunnel_id, pt_dns, pt_proc, pt_signalled, pt_announced,
                   pt_result>>
    /\ PtFrame

\* lines 462-463: self.start_jupyter(); self.start_api()
PtStartJupyter ==
    /\ pt_pc = "start_jupyter"
    /\ \E popen \in {"started", "popen_error"} :
          LET result == persistent_start_jupyter(popen)
          IN  /\ pt_proc' = IF popen = "started"
                            THEN [pt_proc EXCEPT !["jupyter"] = "running"]
                            ELSE pt_proc
              /\ pt_steps' = Append(pt_steps, PtStep("start_jupyter", result))
              /\ pt_pc' = PtAfter(result, "start_tunnel")
    /\ UNCHANGED <<pt_tunnel_id, pt_dns, pt_signalled, pt_announced, pt_result>>
    /\ PtFrame

\* line 464: self.start_tunnel(config_file)
PtStartTunnel ==
    /\ pt_pc = "start_tunnel"
    /\ \E path \in {"found", "unsupported"}, popen \in {"started", "popen_error"},
          polled \in {"running", "exited"} :
          LET result == persistent_start_tunnel(path, popen, polled)
          IN  /\ pt_proc' = IF path = "found" /\ popen = "started"
                            THEN [pt_proc EXCEPT !["tunnel"] = polled]
                            ELSE pt_proc
              /\ pt_steps' = Append(pt_steps, PtStep("start_tunnel", result))
              /\ pt_pc' = PtAfter(result, "announce")
    /\ UNCHANGED <<pt_tunnel_id, pt_dns, pt_signalled, pt_announced, pt_result>>
    /\ PtFrame

\* lines 466-482: the success banner and return True; getpass.getuser (line
\* 474) raises when the user has no name, after the first lines were printed
PtAnnounce ==
    /\ pt_pc = "announce"
    /\ pt_announced' = TRUE
    /\ \E user \in {"found", "raised"} :
          /\ pt_steps' = Append(pt_steps, PtStep("announce", IF user = "found" THEN "True"
                                                              ELSE "raised"))
          /\ IF user = "found"
             THEN pt_result' = <<TRUE>> /\ pt_pc' = "done"
             ELSE pt_result' = pt_result /\ pt_pc' = "stop"
    /\ UNCHANGED <<pt_tunnel_id, pt_dns, pt_proc, pt_signalled>>
    /\ PtFrame

\* lines 484-489 with stop (lines 493-504): terminate() for Jupyter;
\* terminate(), wait and, after five seconds, kill() and wait for the tunnel;
\* return False
PtStop ==
    /\ pt_pc = "stop"
    /\ pt_signalled' = {p \in PtChildren : pt_proc[p] # "none"}
    /\ pt_proc' = [pt_proc EXCEPT !["tunnel"] = IF @ = "none" THEN @ ELSE "exited"]
    /\ pt_result' = <<FALSE>>
    /\ pt_pc' = "done"
    /\ UNCHANGED <<pt_tunnel_id, pt_dns, pt_steps, pt_announced>>
    /\ PtFrame

NextPersistent ==
    \/ PtCreateNewTunnel
    \/ PtCreateDnsRecord
    \/ PtCreateAccessApplication
    \/ PtCreateTunnelConfig
    \/ PtStartJupyter
    \/ PtStartTunnel
    \/ PtAnnounce
    \/ PtStop

----------------------------------------------------------------------------
(* The specifications *)

Next ==
    \/ Discover
    \/ StartBatch
    \/ \E f \in Files : TaskRead(f)
    \/ \E f \in Files : TaskPost(f)
    \/ \E f \in Files : TaskFinish(f)
    \/ AwaitNext
    \/ CancelAll

Init == InitUpload /\ DlIdle /\ CocoIdle /\ ReqIdle /\ TunIdle /\ AgentIdle /\ PtIdle

Spec == Init /\ [][Next]_vars

DownloadInit == InitDownload /\ UpIdle /\ CocoIdle /\ ReqIdle /\ TunIdle /\ AgentIdle /\ PtIdle

SpecDownload == DownloadInit /\ [][NextDownload]_vars

RedownloadInit == InitRedownload /\ UpIdle /\ CocoIdle /\ ReqIdle /\ TunIdle /\ AgentIdle /\ PtIdle

SpecRedownload == RedownloadInit /\ [][NextRedownload]_vars

CocoInit == InitCoco /\ UpIdle /\ DlIdle /\ ReqIdle /\ TunIdle /\ AgentIdle /\ PtIdle

SpecCoco == CocoInit /\ [][NextCoco]_vars

UploadImageInit == InitUploadImage /\ UpIdle /\ DlIdle /\ ReqIdle /\ TunIdle /\ AgentIdle /\ PtIdle

SpecUploadImage == UploadImageInit /\ [][NextUploadImage]_vars

QueryInit == InitQuery /\ UpIdle /\ DlIdle /\ ReqIdle /\ TunIdle /\ AgentIdle /\ PtIdle

SpecQuery == QueryInit /\ [][NextQuery]_vars

RequestInit == InitRequest /\ UpIdle /\ DlIdle /\ CocoIdle /\ TunIdle /\ AgentIdle /\ PtIdle

SpecRequest == RequestInit /\ [][NextRequest]_vars

TunnelInit == InitTunnel /\ UpIdle /\ DlIdle /\ CocoIdle /\ ReqIdle /\ AgentIdle /\ PtIdle

SpecTunnel == TunnelInit /\ [][NextTunnel]_vars

AgentInit == InitAgent /\ UpIdle /\ DlIdle /\ CocoIdle /\ ReqIdle /\ TunIdle /\ PtIdle

SpecAgent == AgentInit /\ [][NextAgent]_vars

PersistentInit == InitPersistent /\ UpIdle /\ DlIdle /\ CocoIdle /\ ReqIdle /\ TunIdle /\ AgentIdle

SpecPersistent == PersistentInit /\ [][NextPersistent]_vars

RunInit == InitRun /\ UpIdle /\ DlIdle /\ CocoIdle /\ ReqIdle /\ TunIdle /\ PtIdle

SpecRun == RunInit /\ [][NextRun]_vars

\* both threads keep running while they have a step to take: pending HTTP and
\* process calls return. Signals and the death of a child are not forced.
SpecRunFair == SpecRun /\ WF_vars(MainThread) /\ WF_vars(MetricsThread)

----------------------------------------------------------------------------
(* Properties of project_upload_data *)

\* the batch a filtered file belongs to, from its position in the list
PosOf(f) == CHOOSE k \in 1..Len(filtered_files) : filtered_files[k] = f
BatchIdx(f) == (PosOf(f) - 1) \div batch_size

InFlight == {f \in Files : tstate[f] = "post"}
Completed == {"ok", "fail"}

\* C1: uploads are concurrent only within one batch: all POSTs in flight
\* belong to the same batch, there are at most batch_size of them, and a POST
\* of a later batch has started only if every POST of every earlier batch has
\* completed (succeeded or failed).
C1_ConcurrentWithinOneBatch ==
    /\ Cardinality(InFlight) <= batch_size
    /\ InFlight \subseteq Range(filtered_files)
    /\ \A f \in InFlight : \A g \in InFlight : BatchIdx(f) = BatchIdx(g)
    /\ \A f \in Range(filtered_files) : \A g \in Range(filtered_files) :
          (BatchIdx(f) < BatchIdx(g) /\ posts[g] > 0) => tstate[f] \in Completed

\* two POSTs in flight together in a batch that is not the first
C1_Witness ==
    /\ Cardinality(InFlight) >= 2
    /\ batch >= 1

\* ceil(n / b): the least k with k * b >= n
CeilDiv(n, b) == CHOOSE k \in 0..n : k * b >= n /\ \A j \in 0..n : j * b >= n => k <= j

\* C2: the batches partition the filtered file list: there are
\* ceil(n / batch_size) of them, each non-empty and of size at most
\* batch_size, one after the other they give the filtered list again; no file
\* is POSTed twice, and when main() returns normally every filtered file was
\* POSTed exactly once (and no other file was).
C2_BatchesPartition ==
    pc \notin {"start", "ValueError", "OSError"} =>
        /\ num_batches = CeilDiv(num_files, batch_size)
        /\ \A i \in 0..(num_batches - 1) :
              /\ Len(BatchSlice(filtered_files, batch_size, i)) >= 1
              /\ Len(BatchSlice(filtered_files, batch_size, i)) <= batch_size
        /\ Concat([i \in 1..num_batches |->
                      BatchSlice(filtered_files, batch_size, i - 1)]) = filtered_files
        /\ \A f \in Files : posts[f] <= 1
        /\ pc = "done" =>
              \A f \in Files : posts[f] = IF f \in Range(filtered_files) THEN 1 ELSE 0

\* a finished run over three files in batches of two (a full and a partial batch)
C2_Witness ==
    /\ pc = "done"
    /\ num_files = 3
    /\ batch_size = 2
    /\ \A f \in Range(filtered_files) : posts[f] = 1

\* an image by name: the name ends in jpg, png, jpeg or webp
HasImageName(f) == \E e \in 1..Len(Extensions) : EndsWith(Candidates[f].name, Extensions[e])

\* a regular file directly in the directory, with an image name, of at most 6 MB
Uploadable(f) ==
    /\ Candidates[f].kind = "file"
    /\ Candidates[f].depth = 1
    /\ HasImageName(f)
    /\ Candidates[f].size <= 6 * 1024 * 1024

Selected(f) == \E k \in 1..Len(filtered_files) : filtered_files[k] = f
Discovered == pc \in {"loop", "await", "done", "raised", "aborted"}

\* what holds of the selection whatever the names are
SelectionSound ==
    /\ \A f \in Files : posts[f] > 0 =>
          /\ f \in tree
          /\ Uploadable(f)
    /\ \A j \in 1..Len(filtered_files) : \A k \in 1..Len(filtered_files) :
          filtered_files[j] = filtered_files[k] => j = k
    /\ \A f \in Files : Candidates[f].size > 6 * 1024 * 1024 => posts[f] = 0
    /\ pc = "ValueError" <=> (~dir_exists /\ pc # "start")
    /\ pc = "ValueError" => \A f \in Files : posts[f] = 0

C4_LogAndContinue ==
    /\ pc \notin {"raised", "aborted"}
    /\ pc = "done" =>
          /\ \A f \in Range(filtered_files) : tstate[f] \in Completed
          /\ pbar = Cardinality({f \in Files : tstate[f] = "ok"})

----------------------------------------------------------------------------
(* Properties of dataset_download_files *)

\* a concurrency limit below the largest number of files the model downloads
DownloadLimit == 2

DlInFlight == {f \in DlFiles : dl_task[f] \in {"get", "write"}}

\* C5: the number of file downloads in flight at the same time never exceeds a
\* fixed bound that does not depend on the number of dataset files.
C5_BoundedDownloads == Cardinality(DlInFlight) <= DownloadLimit

\* what the code does instead: every file of dataset_files can be in flight
\* at the same time
C5_AllInFlight ==
    /\ Len(dl_files) = MaxDownloads
    /\ DlInFlight = Range(dl_files)

----------------------------------------------------------------------------
(* Properties of the COCO index *)

Indexed == coco_pc = "indexed"

IdsOf(es) == {es[k].id : k \in 1..Len(es)}
DistinctIds(es) == \A j, k \in 1..Len(es) : es[j].id = es[k].id => j = k

\* d maps exactly the ids of es, each to an entity of es carrying that id
MapsIdsToEntities(d, es) ==
    /\ DOMAIN d = IdsOf(es)
    /\ \A i \in DOMAIN d : d[i].id = i /\ d[i] \in Range(es)

\* imgToAnns[i] of the defaultdict
ImgToAnnsAt(i) == IF i \in DOMAIN imgToAnns THEN imgToAnns[i] ELSE <<>>

\* the dataset's annotations of image i, in dataset order
AnnsOfImage(i) ==
    LET ofImage(a) == a.image_id = i IN SelectSeq(dataset.annotations, ofImage)

\* how often annotation a occurs in the list l
Occurrences(a, l) == Cardinality({k \in 1..Len(l) : l[k] = a})

RECURSIVE SumOver(_, _)
SumOver(S, f) ==
    IF S = {} THEN 0
    ELSE LET x == CHOOSE y \in S : TRUE IN f[x] + SumOver(S \ {x}, f)

\* C6: after createIndex on an accepted dataset, anns, imgs and cats map every
\* id of the dataset to an entity of the dataset carrying it; imgToAnns[i] is
\* the sequence of the annotations with image_id = i in dataset order, for
\* every image id and every key of imgToAnns; the lists together contain
\* every annotation exactly once.
C6_IndexMapsEntities ==
    Indexed =>
        /\ MapsIdsToEntities(anns, dataset.annotations)
        /\ MapsIdsToEntities(imgs, dataset.images)
        /\ MapsIdsToEntities(cats, dataset.categories)
        /\ \A i \in IdsOf(dataset.images) \cup DOMAIN imgToAnns :
              ImgToAnnsAt(i) = AnnsOfImage(i)
        /\ \A k \in 1..Len(dataset.annotations) :
              SumOver(DOMAIN imgToAnns,
                      [i \in DOMAIN imgToAnns |->
                          Occurrences(dataset.annotations[k], imgToAnns[i])]) = 1

\* an index over two annotations of one image, with duplicated category ids
\* and an image without annotations
C6_Witness ==
    /\ Indexed
    /\ Len(dataset.annotations) = 2
    /\ \E i \in DOMAIN imgToAnns : Len(imgToAnns[i]) = 2
    /\ \E i \in DOMAIN imgs : i \notin DOMAIN imgToAnns
    /\ ~DistinctIds(dataset.categories)

\* the remap is an injective, order-preserving map from the dataset's
\* category ids onto 0..k-1, k the number of distinct category ids; classes
\* has k entries and classes[ref[c]] is the name of the category with id c
RemapIsRanking ==
    LET ref == original_category_referecences
        ids == IdsOf(dataset.categories)
        k == Cardinality(ids)
    IN  /\ DOMAIN ref = ids
        /\ \A c \in ids : \A d \in ids : (c < d) => (ref[c] < ref[d])
        /\ \A c \in ids : \A d \in ids : (ref[c] = ref[d]) => (c = d)
        /\ {ref[c] : c \in ids} = 0..(k - 1)
        /\ Len(classes) = k
        /\ \A j \in 1..Len(dataset.categories) :
              classes[ref[dataset.categories[j].id] + 1] = dataset.categories[j].name

\* C7 as stated: for every dataset accepted by _validate.
C7_Original == Indexed => RemapIsRanking

\* C7 as amended: for every accepted dataset whose category ids are pairwise
\* distinct.
C7_RemapIsRanking == (Indexed /\ DistinctIds(dataset.categories)) => RemapIsRanking

\* categories 3 and 1, listed in that order, remapped to 1 and 0
C7_Witness ==
    /\ Indexed
    /\ Len(dataset.categories) = 2
    /\ dataset.categories[1].id = 3
    /\ dataset.categories[2].id = 1
    /\ original_category_referecences[3] = 1
    /\ original_category_referecences[1] = 0

----------------------------------------------------------------------------
(* Properties of the payloads *)

\* the entries of a payload
Entries(pl) == IF annotation_type = "img_bbox" THEN pl.bboxes[1] ELSE pl.annotations

\* the class value of an entry
EntryClass(e) == IF annotation_type = "img_bbox" THEN e.class ELSE e.category_id

\* the position in the file of the annotation an entry was built from: read
\* off its geometry, which is the annotation's own
EntrySource(e) == IF annotation_type = "img_bbox" THEN e.point[1][1] ELSE e.segmentation[1]

\* the positions of the dataset's annotations of image i, in dataset order
PositionsOfImage(i) ==
    LET ofImage(p) == dataset.annotations[p].image_id = i
    IN  SelectSeq([p \in 1..Len(dataset.annotations) |-> p], ofImage)

GotPayload == Indexed /\ last.op = "get_payload"

\* the payload of image i has one entry per annotation of i, in dataset
\* order, and none from another image (no annotation: no payload)
PayloadIsOfImage ==
    (GotPayload /\ imgs[last.img].on_disk) =>
        IF PositionsOfImage(last.img) = <<>>
        THEN last.payload = <<>>
        ELSE /\ last.payload # <<>>
             /\ LET es == Entries(last.payload[1])
                IN  [k \in 1..Len(es) |-> EntrySource(es[k])] = PositionsOfImage(last.img)

\* C8 as stated: for every dataset accepted by _validate.
C8_Original == PayloadIsOfImage

\* C8 as amended: for every accepted dataset whose annotation ids are pairwise
\* distinct.
C8_PayloadIsOfImage == DistinctIds(dataset.annotations) => PayloadIsOfImage

\* a payload of one entry for an image, while the file holds an annotation of
\* another image too
C8_Witness ==
    /\ GotPayload
    /\ DistinctIds(dataset.annotations)
    /\ last.payload # <<>>
    /\ Len(Entries(last.payload[1])) = 1
    /\ \E p \in 1..Len(dataset.annotations) : dataset.annotations[p].image_id # last.img

\* every class value of the payload is an index into classes that names the
\* category of the annotation the entry was built from; predicted_classes
\* lists exactly the class values of the entries, each once
ClassesAreIndices ==
    (GotPayload /\ last.payload # <<>>) =>
        LET pl == last.payload[1]
            es == Entries(pl)
            pc_ == pl.predicted_classes
        IN  /\ \A k \in 1..Len(es) :
                  LET v == EntryClass(es[k])
                      cat == dataset.annotations[EntrySource(es[k])].category_id
                  IN  /\ Len(v) = 1
                      /\ v[1] >= 0
                      /\ v[1] < Len(pl.classes)
                      /\ \E j \in 1..Len(dataset.categories) :
                            dataset.categories[j].id = cat
                      /\ \A j \in 1..Len(dataset.categories) :
                            dataset.categories[j].id = cat =>
                                pl.classes[v[1] + 1] = dataset.categories[j].name
            /\ Range(pc_) = {EntryClass(es[k]) : k \in 1..Len(es)}
            /\ \A j, k \in 1..Len(pc_) : pc_[j] = pc_[k] => j = k

\* C9 as stated: for every dataset accepted by _validate.
C9_Original == ClassesAreIndices

\* every annotation's category_id is the id of a category of the dataset
CategoriesResolve ==
    \A p \in 1..Len(dataset.annotations) :
        dataset.annotations[p].category_id \in IdsOf(dataset.categories)

\* C9 as amended: for every accepted dataset whose category ids are pairwise
\* distinct and whose annotations all name a category of the dataset.
C9_ClassesAreIndices ==
    (DistinctIds(dataset.categories) /\ CategoriesResolve) => ClassesAreIndices

\* a payload of two entries of category 3, which is class 1: one predicted class
C9_Witness ==
    /\ GotPayload
    /\ DistinctIds(dataset.categories)
    /\ CategoriesResolve
    /\ last.payload # <<>>
    /\ Len(Entries(last.payload[1])) = 2
    /\ \A k \in 1..2 : EntryClass(Entries(last.payload[1])[k]) = <<1>>
    /\ last.payload[1].predicted_classes = << <<1>> >>
    /\ dataset.annotations[1].category_id = 3

----------------------------------------------------------------------------
(* Properties of upload_image *)

Uploaded == coco_pc = "indexed" /\ last.op = "upload_image"

\* C10: the outcome of the POST of upload_image gives exactly one result:
\* status 403 raises SubscriptionError; status 400 returns 0; any other error
\* status or an exception during the POST returns 0; a successful status
\* returns 1; no other exception escapes from the POST and a returned value
\* is 0 or 1.
C10_PostOutcomeToResult ==
    Uploaded =>
        /\ last.posted =>
              /\ (~last.outcome.exc /\ last.outcome.status = 403)
                    => (last.result.kind = "raise" /\ last.result.exc = "SubscriptionError")
              /\ (~last.outcome.exc /\ last.outcome.status = 400)
                    => (last.result.kind = "return" /\ last.result.value = 0)
              /\ (last.outcome.exc \/ last.outcome.status \in {401, 404, 500})
                    => (last.result.kind = "return" /\ last.result.value = 0)
              /\ (~last.outcome.exc /\ last.outcome.status \in {200, 201})
                    => (last.result.kind = "return" /\ last.result.value = 1)
              /\ last.result.kind = "raise"
                    => (~last.outcome.exc /\ last.outcome.status = 403)
        /\ last.result.kind = "return" => last.result.value \in {0, 1}

\* a POST answered 403 raised SubscriptionError
C10_Witness ==
    /\ Uploaded
    /\ last.posted
    /\ last.outcome.status = 403
    /\ last.result = [kind |-> "raise", value |-> 0, exc |-> "SubscriptionError"]

----------------------------------------------------------------------------
(* Properties of utils.send_request *)

\* a call has finished and none has started since
Finished == sr_pc = "idle" /\ sr_result # <<>>

\* the last request of the call and its answer
LastSent == sr_sent[Len(sr_sent)]

\* the hosts a call may contact, in the order of the code
HostOrder(url) ==
    (IF Configured(url) THEN <<url[1]>> ELSE <<>>) \o <<DefaultHost, EnterpriseHost>>

\* the position in sr_sent of the request to the default host
DefaultPos == IF Configured(sr_url0) THEN 2 ELSE 1

\* C11: send_request returns a response only if that response is ok, that is
\* its status is below 400, and raises otherwise; it raises AuthenticationError
\* exactly when the last response it received has status 401 and a generic
\* HTTP error for every other last response that is not ok.  While the call
\* runs it has given nothing.
C11_StatusToError ==
    /\ sr_pc # "idle" => sr_result = <<>>
    /\ Finished =>
          LET r == sr_result[1]
              status == LastSent.status
          IN  /\ r.kind \in {"return", "raise"}
              /\ r.kind = "return" => r.value = status /\ Ok(status) /\ status < 400
              /\ ~Ok(status) => r.kind = "raise"
              /\ r.kind = "raise" =>
                    /\ r.exc = "AuthenticationError" <=> status = 401
                    /\ status # 401 => r.exc = "HTTPError"

\* the default host answered 401, the enterprise host 500, and the call raised
\* the generic error
C11_Witness ==
    /\ Finished
    /\ Len(sr_sent) = 2
    /\ sr_sent[1] = Sent(DefaultHost, 401)
    /\ sr_sent[2] = Sent(EnterpriseHost, 500)
    /\ sr_result[1] = Raise("HTTPError")

\* C16: a call sends at most three requests, in the order configured host
\* (only when UNITLAB_BASE_URL is set), default host, enterprise host; the
\* enterprise host is contacted only if the default host answered 401, the
\* default host whenever the configured host did not answer ok, and nothing is
\* sent after an ok response.
C16_RequestOrder ==
    /\ Len(sr_sent) <= 3
    /\ Len(sr_sent) <= Len(HostOrder(sr_url0))
    /\ \A k \in 1..Len(sr_sent) : sr_sent[k].host = HostOrder(sr_url0)[k]
    /\ \A k \in 1..Len(sr_sent) :
          k = DefaultPos + 1 => sr_sent[k - 1] = Sent(DefaultHost, 401)
    /\ \A k \in 1..Len(sr_sent) : k < Len(sr_sent) => ~Ok(sr_sent[k].status)
    /\ Finished /\ Configured(sr_url0) /\ ~Ok(sr_sent[1].status) =>
          /\ Len(sr_sent) >= 2
          /\ sr_sent[2].host = DefaultHost

\* a call that went through all three hosts: the configured host answered 500
\* and the default host 401
C16_Witness ==
    /\ Finished
    /\ Len(sr_sent) = 3
    /\ sr_sent[1] = Sent(CustomHost, 500)
    /\ sr_sent[2].status = 401
    /\ sr_sent[3].host = EnterpriseHost

\* C17: send_request changes UNITLAB_BASE_URL only when it returns a response
\* served by the default or the enterprise host, and sets it to that host; when
\* it returns a response of the configured host, when it raises, and while it
\* runs, the variable is as it was when the call started.  Hence every call
\* sends its first request to the host of the most recent fallback success.
C17_BaseUrlFollowsFallback ==
    /\ sr_pc # "idle" => base_url = sr_url0
    /\ Finished =>
          LET r == sr_result[1]
              fallback == Len(sr_sent) >= DefaultPos
          IN  /\ r.kind = "return" /\ fallback =>
                    /\ LastSent.host \in {DefaultHost, EnterpriseHost}
                    /\ base_url = <<LastSent.host>>
              /\ r.kind = "return" /\ ~fallback => base_url = sr_url0
              /\ r.kind = "raise" => base_url = sr_url0
    /\ sr_fb0 # <<>> /\ sr_sent # <<>> => sr_sent[1].host = sr_fb0[1]

\* an earlier call succeeded on the enterprise host; the next call asked the
\* enterprise host first, fell back to the default host and returned its
\* response
C17_Witness ==
    /\ Finished
    /\ sr_fb0 = <<EnterpriseHost>>
    /\ sr_url0 = <<EnterpriseHost>>
    /\ Len(sr_sent) = 2
    /\ sr_sent[1] = Sent(EnterpriseHost, 500)
    /\ sr_result[1].kind = "return"
    /\ base_url = <<DefaultHost>>

----------------------------------------------------------------------------
(* Properties of COCO.getAnnIds and COCO.getImgIds *)

\* the annotation passes the imgIds, catIds and areaRng filters of a call
PassesFilters(a, q) ==
    /\ Len(q.imgIds) = 0 \/ InList(a.image_id, q.imgIds)
    /\ Len(q.catIds) = 0 \/ InList(a.category_id, q.catIds)
    /\ Len(q.areaRng) = 0 \/ (a.area > q.areaRng[1] /\ a.area < q.areaRng[2])

\* the annotation has the crowd label the call asks for
HasCrowdLabel(a, iscrowd) ==
    CASE iscrowd = "None" -> TRUE
      [] iscrowd = "True" -> a.iscrowd = 1
      [] iscrowd = "False" -> a.iscrowd = 0

\* the ids a call of getAnnIds is documented to give
ExpectedAnnIds(q) ==
    {a.id : a \in {b \in Range(dataset.annotations) :
                      PassesFilters(b, q) /\ HasCrowdLabel(b, q.iscrowd)}}

\* C12 as stated: getAnnIds gives the ids of the annotations that pass the
\* imgIds, catIds and areaRng filters and have the crowd label asked for:
\* iscrowd true for True, iscrowd false for False, any for None.
C12_CrowdFilter ==
    last.op = "getAnnIds" => Range(last.result) = ExpectedAnnIds(last)

\* what the code does keep: the filters are conjunctive, True keeps the crowd
\* annotations only and None keeps all
CrowdFilterTrueOrNone ==
    last.op = "getAnnIds" /\ last.iscrowd # "False" =>
        Range(last.result) = ExpectedAnnIds(last)

\* the image ids with at least one annotation in every category of catIds, of
\* those in imgIds when some are given
ExpectedImgIds(q) ==
    IF Len(q.imgIds) = 0 /\ Len(q.catIds) = 0 THEN {i.id : i \in Range(dataset.images)}
    ELSE {i \in ImgIds \cup Range(q.imgIds) :
            /\ Len(q.imgIds) = 0 \/ InList(i, q.imgIds)
            /\ \A k \in 1..Len(q.catIds) :
                  \E a \in Range(dataset.annotations) :
                      a.image_id = i /\ a.category_id = q.catIds[k]}

----------------------------------------------------------------------------
(* Properties of CloudflareTunnel.setup *)

\* the steps of setup in the order of the code; login only without cert.pem
StepOrder(cert) ==
    (IF ~cert THEN <<"login">> ELSE <<>>)
        \o <<"create_tunnel", "configure_dns", "create_config_file", "start_tunnel">>

\* the executed steps are the first ones of the order, and none follows a
\* step that failed
RunsInOrder ==
    /\ Len(tn_steps) <= Len(StepOrder(tn_cert0))
    /\ \A k \in 1..Len(tn_steps) : tn_steps[k].step = StepOrder(tn_cert0)[k]
    /\ \A k \in 1..Len(tn_steps) : k < Len(tn_steps) => tn_steps[k].ok

\* setup has ended
SetupEnded == tn_pc = "done"

\* some executed step failed
SomeStepFailed == \E k \in 1..Len(tn_steps) : ~tn_steps[k].ok

\* setup gives a process only after every step of the order succeeded, and
\* the process was running when start_tunnel looked
ProcessOnlyAfterSuccess ==
    SetupEnded /\ tn_result = <<Return("process")>> =>
        /\ Len(tn_steps) = Len(StepOrder(tn_cert0))
        /\ ~SomeStepFailed
        /\ tn_proc = "running"

\* C14 as stated: the steps run in the fixed order, login only when cert.pem
\* is absent; after the first step that fails no later step is executed and
\* setup returns None; it returns a process only if every executed step
\* succeeded and the process was still running.
C14_Original ==
    /\ RunsInOrder
    /\ SetupEnded <=> tn_result # <<>>
    /\ SetupEnded /\ SomeStepFailed => tn_result = <<Return("None")>>
    /\ ProcessOnlyAfterSuccess

\* C14 as amended: the same, except that a failure of create_config_file is an
\* exception that leaves setup; after the failure of any other step setup
\* returns None.
C14_StepsInOrder ==
    /\ RunsInOrder
    /\ SetupEnded <=> tn_result # <<>>
    /\ SetupEnded /\ SomeStepFailed =>
          IF tn_steps[Len(tn_steps)].step = "create_config_file"
          THEN tn_result = <<Raise("OSError")>>
          ELSE tn_result = <<Return("None")>>
    /\ ProcessOnlyAfterSuccess

\* a setup without cert.pem in which login and create_tunnel succeeded and
\* configure_dns failed: nothing ran after it and setup returned None
C14_Witness ==
    /\ SetupEnded
    /\ ~tn_cert0
    /\ Len(tn_steps) = 3
    /\ tn_steps[1].step = "login" /\ tn_steps[1].ok
    /\ tn_steps[3].step = "configure_dns" /\ ~tn_steps[3].ok
    /\ tn_result = <<Return("None")>>
    /\ tn_proc = "none"

\* configure_dns was executed and returned this
DnsReturned(v) ==
    \E k \in 1..Len(tn_steps) : tn_steps[k].step = "configure_dns" /\ tn_steps[k].ok = v

\* both route commands succeeded
BothRoutesConfigured == tn_routes.jupyter = "ok" /\ tn_routes.ssh = "ok"

\* C15 as stated: configure_dns returns True only if both route commands
\* succeeded and False when DNS configuration failed; setup never starts a
\* tunnel whose DNS routes failed to be configured.
C15_DnsConfigured ==
    /\ DnsReturned(TRUE) => BothRoutesConfigured
    /\ (\E k \in 1..Len(tn_steps) : tn_steps[k].step = "configure_dns")
          /\ ~BothRoutesConfigured => DnsReturned(FALSE)
    /\ tn_proc # "none" => BothRoutesConfigured

\* what the code does give: False exactly when a route command raised
DnsFalseOnlyOnException ==
    /\ DnsReturned(FALSE) <=> "exc" \in {tn_routes.jupyter, tn_routes.ssh}
    /\ tn_proc # "none" => "exc" \notin {tn_routes.jupyter, tn_routes.ssh}

----------------------------------------------------------------------------
(* Properties of repeated runs of dataset_download_files *)

\* the dataset files the API lists
Listed == Range(dl_response)

\* C18 as stated: whenever a run has finished, returned or raised, every file
\* of the folder that is named after a dataset file is complete; no failed
\* download leaves a partial file that the next run skips.
C18_NoPartialFiles ==
    /\ DlFinished => \A f \in Listed : dl_disk[f] \in {"absent", "complete"}
    /\ \A f \in Listed : dl_disk0[f] = "partial" => dl_task[f] # "none"

\* what the code does: a partial file of an earlier run is skipped by every
\* later run and stays partial
PartialFilesStay ==
    \A f \in Listed : dl_disk0[f] = "partial" =>
        /\ dl_task[f] = "none"
        /\ dl_gets[f] = 0
        /\ dl_disk[f] = "partial"

\* no run requests a file that was in the folder when it started, and no file
\* is requested twice by one run
NeverRequestsExisting ==
    \A f \in DlFiles :
        /\ dl_gets[f] <= 1
        /\ IsFile(dl_disk0, f) => dl_gets[f] = 0
        /\ f \notin Listed => dl_gets[f] = 0

\* every download of the run before this one succeeded
PreviousRunSucceeded ==
    /\ dl_run >= 2
    /\ \A f \in DlFiles : dl_prev[f] \in {"none", "ok"}

\* a run after one in which every download succeeded sends no GET and leaves
\* the folder as it was
Idempotent == PreviousRunSucceeded => (\A f \in DlFiles : dl_gets[f] = 0) /\ dl_disk = dl_disk0

----------------------------------------------------------------------------
(* Properties of the device agent *)

\* C20 as stated: in no interleaving of the metrics thread with
\* cleanup_device_agent does either of them call poll, terminate, wait or
\* kill on a process handle that is None.
C20_NoCallOnNone == none_calls = {}

\* what does hold: the metrics thread, the only one that assigns None, never
\* calls poll on None itself
MetricsNeverCallsOnNone == \A c \in none_calls : c[1] = "main"

----------------------------------------------------------------------------
(* Properties of run_device_agent: shutdown, start order, service reports *)

\* child p has exited, or terminate() or kill() was called on it
Stopped(p) == ~alive[p] \/ p \in signalled

\* the main thread is in its loop (lines 602-603) and running is False
ShutdownRequested == main_pc = At("loop", "-") /\ ~running

\* cleanup_device_agent was left, by its last line or by an exception
CleanupEnded == main_pc.at \in {"done", "AttributeError"}

\* C21: once running is False it stays False; when running is False in the
\* main loop, run_device_agent eventually has run cleanup_device_agent; once
\* cleanup_device_agent has ended, every child process that was alive has
\* been terminated or killed; and the metrics loop eventually stops.
C21_Shutdown ==
    /\ [][~running => ~running']_vars
    /\ ShutdownRequested ~> CleanupEnded
    /\ [](CleanupEnded => \A p \in Children : Stopped(p))
    /\ ShutdownRequested ~> (metrics_pc = At("stopped", "-"))

\* what of C21 the code does give: running never returns to True
RunningStaysFalse == [][~running => ~running']_vars

\* ... the main loop is left, cleanup_device_agent is run and is left
CleanupRuns == ShutdownRequested ~> CleanupEnded

\* ... the metrics loop stops
MetricsStops == ShutdownRequested ~> (metrics_pc = At("stopped", "-"))

\* ... and a cleanup_device_agent that returns leaves no child running
ReturnedCleanupStopsAll ==
    main_pc = At("done", "-") => \A p \in Children : Stopped(p)

\* run_device_agent has returned: after start_jupyter failed (line 573) or
\* after cleanup_device_agent (lines 582 and 607)
RunReturned == main_pc \in {At("returned", "-"), At("done", "-")}

\* the services were started in the order of ServiceOrder, each only after
\* the one before it succeeded
StartedInOrder ==
    /\ Len(services) <= Len(ServiceOrder)
    /\ \A i \in 1..Len(services) :
          /\ services[i].service = ServiceOrder[i]
          /\ i < Len(services) => services[i].ok

\* setup_tunnels was called and returned True
TunnelsSucceeded == Len(services) >= 2 /\ services[2].ok

\* C22: run_device_agent starts Jupyter, the tunnels and the metrics thread
\* in this order, each only after the one before succeeded; no metric is
\* sent and no metrics thread runs unless setup_tunnels succeeded; and when
\* run_device_agent has returned, a Jupyter process it started has exited or
\* was sent terminate() or kill().
C22_StartOrder ==
    /\ StartedInOrder
    /\ (metrics_sent \/ metrics_pc # At("idle", "-")) => TunnelsSucceeded
    /\ (RunReturned /\ "jupyter" \in started) => Stopped("jupyter")

\* run_device_agent started all three services, sent metrics and returned
\* after cleanup_device_agent terminated the running Jupyter process
C22_Witness ==
    /\ main_pc = At("done", "-")
    /\ Len(services) = 3
    /\ metrics_sent
    /\ "jupyter" \in signalled
    /\ none_calls = {}

\* setup_tunnels failed and run_device_agent returned through
\* cleanup_device_agent, which terminated Jupyter
TunnelFailureCleansUp ==
    /\ main_pc = At("done", "-")
    /\ Len(services) = 2
    /\ ~services[2].ok
    /\ "jupyter" \in signalled

\* start_jupyter failed after starting the process and terminated it
JupyterFailureTerminates ==
    /\ main_pc = At("returned", "-")
    /\ started = {"jupyter"}
    /\ signalled = {"jupyter"}

\* call r of report_services sent the SSH report, with the status check_ssh
\* gave
SentSshReport(r) ==
    \E k \in 1..Len(r.sent) :
        /\ r.sent[k].service = "ssh"
        /\ r.sent[k].status = "online" <=> r.ssh_available = <<TRUE>>

\* C23: every call of report_services sends the SSH service report, online
\* exactly when check_ssh returned True, whatever became of the Jupyter
\* report, and the call does not raise.
C23_AlwaysReportsSsh ==
    \A i \in 1..Len(report) : SentSshReport(report[i]) /\ ~report[i].raised

\* what of C23 the code does give: no call raises, the Jupyter report is
\* always sent, and an SSH report that is sent carries check_ssh's answer
ReportsJupyterAndNeverRaises ==
    \A i \in 1..Len(report) :
        /\ ~report[i].raised
        /\ report[i].sent[1].service = "jupyter"
        /\ Len(report[i].sent) = 2 => SentSshReport(report[i])

\* a call of report_services that sent both reports
BothReportsSent == \E i \in 1..Len(report) : Len(report[i].sent) = 2

----------------------------------------------------------------------------
(* Properties of PersistentTunnel.start *)

\* what step name returned, <<>> when it was not executed
PtResultOf(name) ==
    LET at == {i \in 1..Len(pt_steps) : pt_steps[i].step = name}
    IN  IF at = {} THEN <<>> ELSE <<pt_steps[CHOOSE i \in at : TRUE].result>>

\* step name was executed and failed: it raised or returned None or False
PtFailed(name) == PtResultOf(name) \in {<<"raised">>, <<"None">>, <<"False">>}

\* start has returned
PtEnded == pt_pc = "done"

\* C24: start returns True, and announces success, only if the tunnel was
\* created (tunnel_id is set), its DNS records were created and the
\* cloudflared process is running; and when create_new_tunnel,
\* create_dns_record or start_tunnel failed, start returns False and stop
\* has terminated the processes start had started.
C24_StartSucceedsOnlyWhenUp ==
    /\ (pt_result = <<TRUE>> \/ pt_announced) =>
          /\ pt_tunnel_id # <<>>
          /\ pt_dns = {"main", "ssh"}
          /\ pt_proc["tunnel"] = "running"
    /\ (PtEnded /\ \E name \in {"create_new_tunnel", "create_dns_record", "start_tunnel"} :
                      PtFailed(name)) =>
          /\ pt_result = <<FALSE>>
          /\ \A p \in PtChildren : pt_proc[p] # "none" => p \in pt_signalled

\* what the code does give: start returns False exactly when a step raised,
\* and then stop has called terminate() on every process start had started
\* and the tunnel process has exited
FalseExactlyWhenRaised ==
    PtEnded =>
        /\ pt_result = <<FALSE>> <=> \E i \in 1..Len(pt_steps) : pt_steps[i].result = "raised"
        /\ pt_result = <<FALSE>> =>
              /\ \A p \in PtChildren : pt_proc[p] # "none" => p \in pt_signalled
              /\ pt_proc["tunnel"] # "running"

\* start returned True although no tunnel was created, no DNS record exists
\* and the cloudflared process has exited
SuccessWithNothingUp ==
    /\ pt_result = <<TRUE>>
    /\ pt_tunnel_id = <<>>
    /\ pt_dns = {}
    /\ pt_proc["tunnel"] = "exited"

====
